---- MODULE Spec2Model ----
(***************************************************************************)
(* A model of the finite state machine library: the transition core        *)
(* (pkg/fsm/state_machine.go), its context store and error values          *)
(* (pkg/fsm/types.go), the guard/action helpers (pkg/fsm/builder.go) and   *)
(* the event bus (pkg/fsm/streaming.go), the configuration loader's        *)
(* BuildMachine and the natural-language parser.                           *)
(*                                                                         *)
(* Spec        : one caller drives one machine; every API call is one      *)
(*               step, which is what the machine lock makes of it.         *)
(* SpecConc    : several threads drive one machine; lock acquisition, the  *)
(*               steps under the lock and context accesses are separate    *)
(*               steps, so that interleavings are visible.                 *)
(* SpecBuilder : one caller drives an FSMBuilder.                          *)
(* SpecContext : one caller drives a context store and the map GetAll      *)
(*               gave it.                                                  *)
(* SpecBus     : a caller runs a scenario on an EventStreamer, whose       *)
(*               processor and consumer goroutines take their steps in     *)
(*               any order; SpecBusFair adds fair scheduling of them.      *)
(* SpecLoader  : a caller writes a document, registers names and calls     *)
(*               BuildMachine.                                             *)
(* SpecParser  : a caller has a description parsed and the document built. *)
(* SpecReentrantFair : a callback calls into its machine, on its own       *)
(*               thread or on a new one.                                   *)
(* SpecConfigured : SpecBus with a configured buffer size.                 *)
(* SpecHooked  : one caller and an observer of the enter and exit          *)
(*               dispatches.                                               *)
(* SpecKeyed   : one caller, labels that contain ':'.                      *)
(* SpecMessages : SpecConc with threads that process bus messages.         *)
(***************************************************************************)
EXTENDS Integers, Sequences, FiniteSets, TLC

VARIABLES sm, setup, call, blocked, path, started, answer, builder, thr, mu, ctxBusy, crashed, lastTo, chained, commits, successes, calls, snap, loader, es, chans, fsms, procs, caller, hist

vars == <<sm, setup, call, blocked, path, started, answer, builder, thr, mu, ctxBusy, crashed, lastTo, chained, commits, successes, calls, snap, loader, es, chans, fsms, procs, caller, hist>>

\* sm      the machine (the fields of StateMachine)
\* setup   the set-up program the caller runs and its position in it
\* call    the last API call: its name, argument, the machine before it,
\*         what it returned and the hooks and action it ran
\* blocked, path   what the caller remembers of its earlier calls
\* started the state of the first Start call that succeeded
\* answer  what the last query (CanTransition, GetValidEvents) returned
\* builder the FSMBuilder around the machine: its initialState field, the
\*         calls made on it and what Build returned
\* snap    the map the caller got from Context.GetAll, if any
\* loader  the ConfigLoader's document and what BuildMachine returned
\* es, chans, fsms, procs, caller, hist   the event bus: the EventStreamer,
\*         its channels, the machines handed to it, its goroutines, the
\*         thread calling it and what an observer records
auxVars == <<snap, loader, es, chans, fsms, procs, caller, hist>>

seqVars == <<setup, call, blocked, path, started, answer, builder, snap, loader, es, chans, fsms, procs, caller, hist>>

\* thr     per thread: the call it is in and its position in that call
\* mu      the machine's RWMutex: the writer holding it and the readers
\* ctxBusy the accesses to the context's map that are under way
\* crashed the runtime has stopped the process on a concurrent map access
\* lastTo, chained, commits, successes, calls   what an observer counts
concVars == <<thr, mu, ctxBusy, crashed, lastTo, chained, commits, successes, calls>>

(***************************************************************************)
(* Values                                                                  *)
(***************************************************************************)

\* The zero value of State: a machine that was never placed in a state.
NoState == ""

\* A nil interface value, what Context.Get returns for an absent key.
Nil == "nil"

\* A nil TransitionCondition / TransitionAction.
NilFunc == "nil"

\* HookType (types.go, const block).
BeforeTransition == "BeforeTransition"

AfterTransition == "AfterTransition"

OnTransitionError == "OnTransitionError"

OnStateEnter == "OnStateEnter"

OnStateExit == "OnStateExit"

HookTypes == {BeforeTransition, AfterTransition, OnTransitionError, OnStateEnter, OnStateExit}

\* The entry the model writes to the trace when a transition's action runs.
ActionRun == "Action"

\* Labels the callers use.  They are identifiers ([A-Za-z0-9_]+).
StateLabels == {"red", "green", "yellow"}

EventLabels == {"timer", "go"}

ContextKeys == {"token", "done"}

\* error values: a nil error, an FSMError, and the plain error of an action.
NilError == [Type |-> "nil", State |-> "", Event |-> "", Cause |-> ""]

FSMError(type, state, event) == [Type |-> type, State |-> state, Event |-> event, Cause |-> ""]

NewInvalidTransitionError(from, event) == FSMError("InvalidTransition", from, event)

NewStateNotFoundError(state) == FSMError("StateNotFound", state, "")

\* errors.New("action failed"): not an FSMError, no kind, no coordinates.
ActionError == [Type |-> "error", State |-> "", Event |-> "", Cause |-> "action failed"]

\* A TransitionResult (Timestamp and ExecutionID left out); IsNil marks the
\* nil pointer that SendEvent returns on its first two early returns.
TransitionResult(success, from, to, event, error) == [IsNil |-> FALSE, Success |-> success, FromState |-> from, ToState |-> to, Event |-> event, Error |-> error]

NilResult == [IsNil |-> TRUE, Success |-> FALSE, FromState |-> "", ToState |-> "", Event |-> "", Error |-> NilError]

Transition(from, event, to, condition, action) == [From |-> from, Event |-> event, To |-> to, Condition |-> condition, Action |-> action]

\* The zero value of Transition.
NoTransition == Transition("", "", "", NilFunc, NilFunc)

EmptyMap == [k \in {} |-> 0]

(***************************************************************************)
(* Context store (types.go, ContextImpl)                                   *)
(***************************************************************************)

NewContext == EmptyMap

Get(c, key) == IF key \in DOMAIN c THEN c[key] ELSE Nil

\* Set that stores nothing.
Set_Nothing(c, key, value) == c

Set(c, key, value) == [k \in DOMAIN c \cup {key} |-> IF k = key THEN value ELSE c[k]]

\* A map value a caller holds: the map object it is ("data", the store's own
\* map, or "result", the map GetAll made) and, for a map of its own, the
\* entries in it.
NoSnapshot == [map |-> "none", entries |-> EmptyMap]

\* GetAll handing out the store's own map.
GetAll_Shared(c) == [map |-> "data", entries |-> EmptyMap]

\* GetAll makes a new map and copies the store's entries into it one by one.
GetAll(c) == [map |-> "result", entries |-> [k \in DOMAIN c |-> c[k]]]

(***************************************************************************)
(* Guards and actions the definitions use                                  *)
(***************************************************************************)

\* ContextHasKey("token")
ContextHasKey(c) == Get(c, "token") # Nil

\* SetContextValue("done", "1")
SetContextValue(c) == Set(c, "done", "1")

Conditions == {NilFunc, "ContextHasKey"}

Actions == {NilFunc, "SetContextValue", "fail"}

\* Calling a non-nil TransitionCondition.
EvalCondition(condition, c) == IF condition = "ContextHasKey" THEN ContextHasKey(c) ELSE TRUE

\* Calling a non-nil TransitionAction: the context it leaves and its error.
RunAction(action, from, to, event, c) ==
    IF action = "SetContextValue" THEN [context |-> SetContextValue(c), err |-> NilError]
    ELSE IF action = "fail" THEN [context |-> c, err |-> ActionError]
    ELSE [context |-> c, err |-> NilError]

(***************************************************************************)
(* StateMachine (state_machine.go)                                         *)
(***************************************************************************)

NewStateMachine ==
    [currentState |-> NoState,
     states       |-> {},
     events       |-> {},
     transitions  |-> EmptyMap,
     hooks        |-> [h \in HookTypes |-> <<>>],
     context      |-> NewContext,
     running      |-> FALSE,
     initialState |-> NoState]

transitionKey(from, event) == from \o ":" \o event

\* The hooks of a kind called from the last registered to the first.
executeHooks_Reversed(m, hookType, result, trace) ==
    trace \o [i \in 1..Len(m.hooks[hookType]) |->
                [kind |-> hookType, hook |-> m.hooks[hookType][Len(m.hooks[hookType]) + 1 - i], cur |-> m.currentState, result |-> result]]

\* One trace entry per hook invocation: the hook, the result it was handed
\* and the current state it could observe.
executeHooks(m, hookType, result, trace) ==
    trace \o [i \in 1..Len(m.hooks[hookType]) |->
                [kind |-> hookType, hook |-> m.hooks[hookType][i], cur |-> m.currentState, result |-> result]]

AddState(m, state) == [m EXCEPT !.states = @ \cup {state}]

AddEvent(m, event) == [m EXCEPT !.events = @ \cup {event}]

AddHook(m, hookType, hook) == [m EXCEPT !.hooks[hookType] = Append(@, hook)]

RemoveHook(m, hookType) == [m EXCEPT !.hooks[hookType] = <<>>]

\* AddTransition without its three checks.
AddTransition_Unchecked(m, transition) ==
    LET key == transitionKey(transition.From, transition.Event)
    IN [sm |-> [m EXCEPT !.transitions = [k \in DOMAIN @ \cup {key} |-> IF k = key THEN transition ELSE @[k]]],
        err |-> NilError]

\* AddTransition keeping the transition a pair already has.
AddTransition_FirstWins(m, transition) ==
    IF transition.From \notin m.states THEN [sm |-> m, err |-> NewStateNotFoundError(transition.From)]
    ELSE IF transition.To \notin m.states THEN [sm |-> m, err |-> NewStateNotFoundError(transition.To)]
    ELSE IF transition.Event \notin m.events THEN [sm |-> m, err |-> FSMError("EventNotFound", "", transition.Event)]
    ELSE LET key == transitionKey(transition.From, transition.Event)
         IN [sm |-> [m EXCEPT !.transitions = [k \in DOMAIN @ \cup {key} |-> IF k \in DOMAIN @ THEN @[k] ELSE transition]],
             err |-> NilError]

AddTransition(m, transition) ==
    IF transition.From \notin m.states THEN [sm |-> m, err |-> NewStateNotFoundError(transition.From)]
    ELSE IF transition.To \notin m.states THEN [sm |-> m, err |-> NewStateNotFoundError(transition.To)]
    ELSE IF transition.Event \notin m.events THEN [sm |-> m, err |-> FSMError("EventNotFound", "", transition.Event)]
    ELSE LET key == transitionKey(transition.From, transition.Event)
         IN [sm |-> [m EXCEPT !.transitions = [k \in DOMAIN @ \cup {key} |-> IF k = key THEN transition ELSE @[k]]],
             err |-> NilError]

\* RemoveTransition that reports success and deletes nothing.
RemoveTransition_Keeps(m, from, event) == [sm |-> m, err |-> IF transitionKey(from, event) \in DOMAIN m.transitions THEN NilError ELSE FSMError("TransitionNotFound", from, event)]

RemoveTransition(m, from, event) ==
    LET key == transitionKey(from, event)
    IN IF key \notin DOMAIN m.transitions
       THEN [sm |-> m, err |-> FSMError("TransitionNotFound", from, event)]
       ELSE [sm |-> [m EXCEPT !.transitions = [k \in DOMAIN @ \ {key} |-> @[k]]], err |-> NilError]

\* What an API call hands back to the model: the machine it leaves, the
\* returned result and error, and the hook/action trace of the call.
Return(m, result, err, trace) == [sm |-> m, result |-> result, err |-> err, trace |-> trace]

\* Variants of the commit sequence with one step out of place: the exit
\* hooks after the action ("exitLate"), the state update before the action
\* ("commitEarly"), the enter hooks before the state update ("enterEarly").
CommitVariant(m, transition, event, variant) ==
    LET result == TransitionResult(TRUE, m.currentState, transition.To, event, NilError)
        early == IF variant = "commitEarly" THEN [m EXCEPT !.currentState = transition.To] ELSE m
        t1 == executeHooks(m, BeforeTransition, result, <<>>)
        t2 == IF variant = "exitLate" THEN t1 ELSE executeHooks(m, OnStateExit, result, t1)
        act == RunAction(transition.Action, m.currentState, transition.To, event, m.context)
        ran == [kind |-> ActionRun, hook |-> transition.Action, cur |-> early.currentState, result |-> result]
        t3 == IF transition.Action # NilFunc THEN Append(t2, ran) ELSE t2
        m3 == IF transition.Action # NilFunc THEN [early EXCEPT !.context = act.context] ELSE early
        t3x == IF variant = "exitLate" THEN executeHooks(m3, OnStateExit, result, t3) ELSE t3
    IN IF transition.Action # NilFunc /\ act.err # NilError
       THEN LET failed == [result EXCEPT !.Success = FALSE, !.Error = act.err]
            IN Return(m3, failed, act.err, executeHooks(m3, OnTransitionError, failed, t3))
       ELSE LET m4 == [m3 EXCEPT !.currentState = transition.To]
                t4 == executeHooks(IF variant = "enterEarly" THEN m3 ELSE m4, OnStateEnter, result, t3x)
                t5 == executeHooks(m4, AfterTransition, result, t4)
            IN Return(m4, result, NilError, t5)

CommitSequence_ExitLate(m, transition, event) == CommitVariant(m, transition, event, "exitLate")

CommitSequence_CommitEarly(m, transition, event) == CommitVariant(m, transition, event, "commitEarly")

CommitSequence_EnterEarly(m, transition, event) == CommitVariant(m, transition, event, "enterEarly")

\* The commit sequence of SendEvent (state_machine.go 165-199), entered once
\* the transition is selected and its guard has passed.
CommitSequence(m, transition, event) ==
    LET result == TransitionResult(TRUE, m.currentState, transition.To, event, NilError)
        t1 == executeHooks(m, BeforeTransition, result, <<>>)
        t2 == executeHooks(m, OnStateExit, result, t1)
        act == RunAction(transition.Action, m.currentState, transition.To, event, m.context)
        ran == [kind |-> ActionRun, hook |-> transition.Action, cur |-> m.currentState, result |-> result]
        t3 == IF transition.Action # NilFunc THEN Append(t2, ran) ELSE t2
        m3 == IF transition.Action # NilFunc THEN [m EXCEPT !.context = act.context] ELSE m
    IN IF transition.Action # NilFunc /\ act.err # NilError
       THEN LET failed == [result EXCEPT !.Success = FALSE, !.Error = act.err]
            IN Return(m3, failed, act.err, executeHooks(m3, OnTransitionError, failed, t3))
       ELSE LET m4 == [m3 EXCEPT !.currentState = transition.To]
                t4 == executeHooks(m4, OnStateEnter, result, t3)
                t5 == executeHooks(m4, AfterTransition, result, t4)
            IN Return(m4, result, NilError, t5)

\* The guard check with the negation lost.
GuardedTransition_Inverted(m, transition, event) ==
    IF transition.Condition # NilFunc /\ EvalCondition(transition.Condition, m.context)
    THEN LET err == FSMError("ConditionNotMet", m.currentState, event)
             result == TransitionResult(FALSE, m.currentState, m.currentState, event, err)
         IN Return(m, result, err, executeHooks(m, OnTransitionError, result, <<>>))
    ELSE CommitSequence(m, transition, event)

\* The guard never consulted.
GuardedTransition_Unguarded(m, transition, event) == CommitSequence(m, transition, event)

\* SendEvent from the guard check on (state_machine.go 142-199).
GuardedTransition(m, transition, event) ==
    IF transition.Condition # NilFunc /\ ~EvalCondition(transition.Condition, m.context)
    THEN LET err == FSMError("ConditionNotMet", m.currentState, event)
             result == TransitionResult(FALSE, m.currentState, m.currentState, event, err)
         IN Return(m, result, err, executeHooks(m, OnTransitionError, result, <<>>))
    ELSE CommitSequence(m, transition, event)

\* SendEvent from the transition lookup on (state_machine.go 123-199).
SelectTransition(m, event) ==
    LET key == transitionKey(m.currentState, event)
    IN IF key \notin DOMAIN m.transitions
       THEN LET err == NewInvalidTransitionError(m.currentState, event)
                result == TransitionResult(FALSE, m.currentState, m.currentState, event, err)
            IN Return(m, result, err, executeHooks(m, OnTransitionError, result, <<>>))
       ELSE GuardedTransition(m, m.transitions[key], event)

\* The event looked up before the machine is known to run.
SendEvent_EventFirst(m, event) ==
    IF event \notin m.events THEN Return(m, NilResult, FSMError("EventNotFound", "", event), <<>>)
    ELSE IF ~m.running THEN Return(m, NilResult, FSMError("MachineNotRunning", "", event), <<>>)
    ELSE SelectTransition(m, event)

SendEvent(m, event) ==
    IF ~m.running THEN Return(m, NilResult, FSMError("MachineNotRunning", "", event), <<>>)
    ELSE IF event \notin m.events THEN Return(m, NilResult, FSMError("EventNotFound", "", event), <<>>)
    ELSE SelectTransition(m, event)

\* canTransitionUnsafe without the call of the guard.
canTransitionUnsafe_NoGuard(m, event) ==
    IF ~m.running \/ event \notin m.events THEN FALSE
    ELSE transitionKey(m.currentState, event) \in DOMAIN m.transitions

canTransitionUnsafe(m, event) ==
    IF ~m.running \/ event \notin m.events THEN FALSE
    ELSE LET key == transitionKey(m.currentState, event)
         IN IF key \notin DOMAIN m.transitions THEN FALSE
            ELSE IF m.transitions[key].Condition # NilFunc
                 THEN EvalCondition(m.transitions[key].Condition, m.context)
                 ELSE TRUE

CanTransition(m, event) ==
    IF ~m.running \/ event \notin m.events THEN FALSE
    ELSE LET key == transitionKey(m.currentState, event)
         IN IF key \notin DOMAIN m.transitions THEN FALSE
            ELSE IF m.transitions[key].Condition # NilFunc
                 THEN EvalCondition(m.transitions[key].Condition, m.context)
                 ELSE TRUE

\* The slices GetValidEvents may return: the events of the event set that
\* pass canTransitionUnsafe, each once, in the order the iteration over the
\* event map happens to take.
GetValidEvents(m) ==
    LET validEvents == {event \in m.events : canTransitionUnsafe(m, event)}
    IN {order \in [1..Cardinality(validEvents) -> validEvents] : \A i, j \in DOMAIN order : order[i] = order[j] => i = j}

\* SetState refusing a state that no transition from the current state
\* leads to.
SetState_RequiresTransition(m, state) ==
    IF state \notin m.states THEN Return(m, NilResult, NewStateNotFoundError(state), <<>>)
    ELSE IF \A k \in DOMAIN m.transitions : ~(m.transitions[k].From = m.currentState /\ m.transitions[k].To = state)
         THEN Return(m, NilResult, NewInvalidTransitionError(m.currentState, ""), <<>>)
         ELSE LET m1 == [m EXCEPT !.currentState = state]
                  t1 == executeHooks(m1, OnStateExit, TransitionResult(TRUE, m.currentState, state, "", NilError), <<>>)
              IN Return(m1, NilResult, NilError,
                        executeHooks(m1, OnStateEnter, TransitionResult(TRUE, m.currentState, state, "", NilError), t1))

SetState(m, state) ==
    IF state \notin m.states THEN Return(m, NilResult, NewStateNotFoundError(state), <<>>)
    ELSE LET oldState == m.currentState
             m1 == [m EXCEPT !.currentState = state]
             t1 == IF oldState # NoState
                   THEN executeHooks(m1, OnStateExit, TransitionResult(TRUE, oldState, state, "", NilError), <<>>)
                   ELSE <<>>
             t2 == executeHooks(m1, OnStateEnter, TransitionResult(TRUE, oldState, state, "", NilError), t1)
         IN Return(m1, NilResult, NilError, t2)

\* Start without the check of the state set.
Start_Unchecked(m, initialState) ==
    LET m1 == [m EXCEPT !.initialState = initialState, !.currentState = initialState, !.running = TRUE]
    IN Return(m1, NilResult, NilError,
              executeHooks(m1, OnStateEnter, TransitionResult(TRUE, NoState, initialState, "", NilError), <<>>))

Start(m, initialState) ==
    IF initialState \notin m.states THEN Return(m, NilResult, NewStateNotFoundError(initialState), <<>>)
    ELSE LET m1 == [m EXCEPT !.initialState = initialState, !.currentState = initialState, !.running = TRUE]
         IN Return(m1, NilResult, NilError,
                   executeHooks(m1, OnStateEnter, TransitionResult(TRUE, NoState, initialState, "", NilError), <<>>))

\* Stop without the dispatch of the exit hooks.
Stop_NoHooks(m) == Return([m EXCEPT !.running = FALSE], NilResult, NilError, <<>>)

Stop(m) ==
    LET t1 == IF m.running
              THEN executeHooks(m, OnStateExit, TransitionResult(TRUE, m.currentState, NoState, "", NilError), <<>>)
              ELSE <<>>
    IN Return([m EXCEPT !.running = FALSE], NilResult, NilError, t1)

\* Reset without the check for a recorded initial state.
Reset_NoCheck(m) ==
    LET m1 == [m EXCEPT !.currentState = m.initialState, !.running = TRUE]
    IN Return(m1, NilResult, NilError,
              executeHooks(m1, OnStateEnter, TransitionResult(TRUE, m.currentState, m.initialState, "", NilError), <<>>))

\* Reset dispatching the exit hooks whether the machine runs or not.
Reset_AlwaysExit(m) ==
    IF m.initialState = NoState THEN Return(m, NilResult, FSMError("NoInitialState", "", ""), <<>>)
    ELSE LET t1 == executeHooks(m, OnStateExit, TransitionResult(TRUE, m.currentState, m.initialState, "", NilError), <<>>)
             m1 == [m EXCEPT !.currentState = m.initialState, !.running = TRUE]
         IN Return(m1, NilResult, NilError,
                   executeHooks(m1, OnStateEnter, TransitionResult(TRUE, m.currentState, m.initialState, "", NilError), t1))

Reset(m) ==
    IF m.initialState = NoState THEN Return(m, NilResult, FSMError("NoInitialState", "", ""), <<>>)
    ELSE LET oldState == m.currentState
             t1 == IF m.running /\ oldState # NoState
                   THEN executeHooks(m, OnStateExit, TransitionResult(TRUE, oldState, m.initialState, "", NilError), <<>>)
                   ELSE <<>>
             m1 == [m EXCEPT !.currentState = m.initialState, !.running = TRUE]
             t2 == executeHooks(m1, OnStateEnter, TransitionResult(TRUE, oldState, m.initialState, "", NilError), t1)
         IN Return(m1, NilResult, NilError, t2)

(***************************************************************************)
(* Validate (state_machine.go) and FSMBuilder (builder.go).  A builder is   *)
(* its machine and its initialState field.                                 *)
(***************************************************************************)

\* The error Validate finds in one transition, if any.
Dangling(m, transition) ==
    IF transition.From \notin m.states THEN NewStateNotFoundError(transition.From)
    ELSE IF transition.To \notin m.states THEN NewStateNotFoundError(transition.To)
    ELSE IF transition.Event \notin m.events THEN FSMError("EventNotFound", "", transition.Event)
    ELSE NilError

\* Validate without the check of the event set.
Validate_SkipsEvents(m) ==
    IF m.states = {} THEN {FSMError("NoStates", "", "")}
    ELSE LET errs == {Dangling(m, m.transitions[k]) : k \in DOMAIN m.transitions} \ {NilError}
         IN IF errs = {} THEN {NilError} ELSE errs

\* What Validate may return: it ranges over the transition map in no fixed
\* order and returns at the first transition with a dangling reference.
Validate(m) ==
    IF m.states = {} THEN {FSMError("NoStates", "", "")}
    ELSE IF m.events = {} THEN {FSMError("NoEvents", "", "")}
    ELSE LET errs == {Dangling(m, m.transitions[k]) : k \in DOMAIN m.transitions} \ {NilError}
         IN IF errs = {} THEN {NilError} ELSE errs

NewBuilder == [machine |-> NewStateMachine, initialState |-> NoState]

FSMBuilder_AddState(b, state) == [b EXCEPT !.machine = AddState(@, state)]

RECURSIVE AddStates(_, _)
AddStates(b, states) ==
    IF states = <<>> THEN b ELSE AddStates([b EXCEPT !.machine = AddState(@, Head(states))], Tail(states))

FSMBuilder_AddEvent(b, event) == [b EXCEPT !.machine = AddEvent(@, event)]

RECURSIVE AddEvents(_, _)
AddEvents(b, events) ==
    IF events = <<>> THEN b ELSE AddEvents([b EXCEPT !.machine = AddEvent(@, Head(events))], Tail(events))

\* The plain overload handing the transition to the machine without
\* registering what it refers to.
FSMBuilder_AddTransition_NoRegister(b, from, event, to) ==
    [b EXCEPT !.machine = AddTransition(@, Transition(from, event, to, NilFunc, NilFunc)).sm]

\* The four overloads: each registers from, to and event and then calls the
\* machine's AddTransition, whose error it drops.
FSMBuilder_AddTransition(b, from, event, to) ==
    LET m == AddEvent(AddState(AddState(b.machine, from), to), event)
    IN [b EXCEPT !.machine = AddTransition(m, Transition(from, event, to, NilFunc, NilFunc)).sm]

AddTransitionWithCondition(b, from, event, to, condition) ==
    LET m == AddEvent(AddState(AddState(b.machine, from), to), event)
    IN [b EXCEPT !.machine = AddTransition(m, Transition(from, event, to, condition, NilFunc)).sm]

AddTransitionWithAction(b, from, event, to, action) ==
    LET m == AddEvent(AddState(AddState(b.machine, from), to), event)
    IN [b EXCEPT !.machine = AddTransition(m, Transition(from, event, to, NilFunc, action)).sm]

AddTransitionFull(b, from, event, to, condition, action) ==
    LET m == AddEvent(AddState(AddState(b.machine, from), to), event)
    IN [b EXCEPT !.machine = AddTransition(m, Transition(from, event, to, condition, action)).sm]

SetInitialState(b, state) == [b EXCEPT !.initialState = state, !.machine = AddState(@, state)]

\* What Build may return: the builder it leaves, the machine ("nil" or the
\* builder's machine), the error and the hooks Start ran.
Build(b) ==
    {IF err # NilError THEN [b |-> b, machine |-> "nil", err |-> err, trace |-> <<>>]
     ELSE IF b.initialState # NoState
          THEN LET r == Start(b.machine, b.initialState)
               IN IF r.err # NilError
                  THEN [b |-> b, machine |-> "nil", err |-> r.err, trace |-> r.trace]
                  ELSE [b |-> [b EXCEPT !.machine = r.sm], machine |-> "machine", err |-> NilError, trace |-> r.trace]
          ELSE [b |-> b, machine |-> "machine", err |-> NilError, trace |-> <<>>]
     : err \in Validate(b.machine)}

(***************************************************************************)
(* BuilderWithHooks (builder.go): the hook methods, on the builder's        *)
(* machine                                                                 *)
(***************************************************************************)

AddBeforeTransitionHook(m, hook) == AddHook(m, BeforeTransition, hook)

AddAfterTransitionHook(m, hook) == AddHook(m, AfterTransition, hook)

AddOnStateEnterHook(m, hook) == AddHook(m, OnStateEnter, hook)

AddOnStateExitHook(m, hook) == AddHook(m, OnStateExit, hook)

AddOnTransitionErrorHook(m, hook) == AddHook(m, OnTransitionError, hook)

(***************************************************************************)
(* The caller: it first configures a new machine by one of the set-up      *)
(* programs below, call by call, and then drives it with arbitrary calls.  *)
(***************************************************************************)

StateCall(state) == [op |-> "AddState", state |-> state]

EventCall(event) == [op |-> "AddEvent", event |-> event]

TransitionCall(from, event, to, condition, action) == [op |-> "AddTransition", transition |-> Transition(from, event, to, condition, action)]

HookCall(hookType, hook) == [op |-> "AddHook", hookType |-> hookType, hook |-> hook]

RemoveCall(from, event) == [op |-> "RemoveTransition", from |-> from, event |-> event]

\* A hook registered through the method BuilderWithHooks has for its kind.
BuilderHookCall(hookType, hook) == [op |-> "BuilderHook", hookType |-> hookType, hook |-> hook]

\* The traffic light, with one hook of every kind.
TrafficLight ==
    << StateCall("red"), StateCall("yellow"), StateCall("green"), EventCall("timer"),
       TransitionCall("red", "timer", "green", NilFunc, NilFunc),
       TransitionCall("green", "timer", "yellow", NilFunc, NilFunc),
       TransitionCall("yellow", "timer", "red", NilFunc, NilFunc),
       HookCall(BeforeTransition, "h1"), HookCall(AfterTransition, "h1"), HookCall(OnStateEnter, "h1"),
       HookCall(OnStateExit, "h1"), HookCall(OnTransitionError, "h1") >>

\* A guarded gate, a failing action, a guarded failing action and a working
\* action; yellow has no way out.  Two error hooks and two exit hooks.
Gate ==
    << StateCall("red"), StateCall("green"), StateCall("yellow"), EventCall("go"), EventCall("timer"),
       TransitionCall("red", "go", "green", "ContextHasKey", NilFunc),
       TransitionCall("green", "go", "red", NilFunc, "fail"),
       TransitionCall("red", "timer", "yellow", "ContextHasKey", "fail"),
       TransitionCall("green", "timer", "yellow", NilFunc, "SetContextValue"),
       HookCall(BeforeTransition, "h1"), HookCall(AfterTransition, "h1"), HookCall(OnStateEnter, "h1"),
       HookCall(OnStateExit, "h1"), HookCall(OnStateExit, "h2"),
       HookCall(OnTransitionError, "h1"), HookCall(OnTransitionError, "h2") >>

\* Two states and no hooks at all.
Plain ==
    << StateCall("red"), StateCall("green"), EventCall("go"),
       TransitionCall("red", "go", "green", NilFunc, "SetContextValue"),
       TransitionCall("green", "go", "red", "ContextHasKey", NilFunc) >>

\* Transitions added twice for one pair, removed and added again, and hooks
\* registered through the builder's methods and through AddHook.
Override ==
    << StateCall("red"), StateCall("green"), StateCall("yellow"), EventCall("go"), EventCall("timer"),
       TransitionCall("red", "go", "green", NilFunc, NilFunc),
       TransitionCall("green", "go", "red", "ContextHasKey", "fail"),
       TransitionCall("red", "go", "yellow", "ContextHasKey", "SetContextValue"),
       TransitionCall("yellow", "go", "red", NilFunc, NilFunc),
       TransitionCall("green", "go", "yellow", NilFunc, NilFunc),
       RemoveCall("yellow", "go"),
       TransitionCall("red", "timer", "green", NilFunc, NilFunc),
       RemoveCall("red", "timer"),
       TransitionCall("red", "timer", "yellow", NilFunc, "fail"),
       RemoveCall("green", "timer"),
       BuilderHookCall(OnStateEnter, "h2"), HookCall(OnStateEnter, "h1"), BuilderHookCall(OnStateEnter, "h3"),
       BuilderHookCall(BeforeTransition, "h1"), BuilderHookCall(AfterTransition, "h1"),
       BuilderHookCall(OnStateExit, "h1"), BuilderHookCall(OnTransitionError, "h1") >>

Definitions == << TrafficLight, Gate, Plain, Override >>

\* The longest run of consecutive successful SendEvent calls that is recorded.
MaxPath == 5

SetupDone == setup.pc > Len(Definitions[setup.def])

NextCall == Definitions[setup.def][setup.pc]

\* The record of the last call: what was called, the machine before the
\* call, and what the call returned and ran.
Called(op, arg, pre, ret) == [op |-> op, arg |-> arg, pre |-> pre, wasBlocked |-> blocked, result |-> ret.result, err |-> ret.err, trace |-> ret.trace]

Configured(op, m, err) ==
    /\ sm' = m
    /\ setup' = [setup EXCEPT !.pc = @ + 1]
    /\ call' = Called(op, "", sm, Return(m, NilResult, err, <<>>))
    /\ UNCHANGED <<blocked, path, started, answer, builder>>
    /\ UNCHANGED concVars
    /\ UNCHANGED auxVars

CallAddState ==
    /\ ~SetupDone
    /\ NextCall.op = "AddState"
    /\ Configured("AddState", AddState(sm, NextCall.state), NilError)

CallAddEvent ==
    /\ ~SetupDone
    /\ NextCall.op = "AddEvent"
    /\ Configured("AddEvent", AddEvent(sm, NextCall.event), NilError)

CallAddTransition ==
    /\ ~SetupDone
    /\ NextCall.op = "AddTransition"
    /\ LET r == AddTransition(sm, NextCall.transition) IN Configured("AddTransition", r.sm, r.err)

CallAddHook ==
    /\ ~SetupDone
    /\ NextCall.op = "AddHook"
    /\ Configured("AddHook", AddHook(sm, NextCall.hookType, NextCall.hook), NilError)

CallRemoveTransition ==
    /\ ~SetupDone
    /\ NextCall.op = "RemoveTransition"
    /\ LET r == RemoveTransition(sm, NextCall.from, NextCall.event) IN Configured("RemoveTransition", r.sm, r.err)

CallBuilderHook ==
    /\ ~SetupDone
    /\ NextCall.op = "BuilderHook"
    /\ Configured("BuilderHook",
                  CASE NextCall.hookType = BeforeTransition -> AddBeforeTransitionHook(sm, NextCall.hook)
                    [] NextCall.hookType = AfterTransition -> AddAfterTransitionHook(sm, NextCall.hook)
                    [] NextCall.hookType = OnStateEnter -> AddOnStateEnterHook(sm, NextCall.hook)
                    [] NextCall.hookType = OnStateExit -> AddOnStateExitHook(sm, NextCall.hook)
                    [] NextCall.hookType = OnTransitionError -> AddOnTransitionErrorHook(sm, NextCall.hook),
                  NilError)

\* path: the states visited by the consecutive successful SendEvent calls
\* since the machine was last placed by Start or Reset.
PathAfter(op, ret) ==
    IF op \in {"Start", "Reset"} /\ ret.err = NilError THEN <<ret.sm.currentState>>
    ELSE IF op = "SendEvent" /\ ret.err = NilError /\ path # <<>>
         THEN IF Len(path) < MaxPath THEN Append(path, ret.sm.currentState) ELSE path
         ELSE <<>>

\* blocked: the event whose last SendEvent was refused by its guard, while
\* nothing but context writes happened since.
BlockedAfter(op, arg, ret) == IF op = "SendEvent" /\ ret.err.Type = "ConditionNotMet" THEN arg ELSE ""

\* started: the argument of the first Start that returned no error.
StartedAfter(op, arg, ret) == IF op = "Start" /\ ret.err = NilError /\ started = NoState THEN arg ELSE started

\* No query was made by the last call.
NoAnswer == [can |-> FALSE, valid |-> <<>>]

\* No builder is in use: the caller works on the machine itself.
NoBuilder == [initialState |-> NoState, calls |-> 0, returned |-> "none", added |-> NoTransition]

Driven(op, arg, ret) ==
    /\ SetupDone
    /\ sm' = ret.sm
    /\ call' = Called(op, arg, sm, ret)
    /\ blocked' = BlockedAfter(op, arg, ret)
    /\ path' = PathAfter(op, ret)
    /\ started' = StartedAfter(op, arg, ret)
    /\ answer' = NoAnswer
    /\ UNCHANGED <<setup, builder>>
    /\ UNCHANGED concVars
    /\ UNCHANGED auxVars

CallStart == \E s \in StateLabels : Driven("Start", s, Start(sm, s))

CallStop == Driven("Stop", "", Stop(sm))

CallReset == Driven("Reset", "", Reset(sm))

CallSetState == \E s \in StateLabels : Driven("SetState", s, SetState(sm, s))

CallSendEvent == \E e \in EventLabels : Driven("SendEvent", e, SendEvent(sm, e))

\* Transitions that refer to a state ("blue") or an event ("stop") that no
\* definition registers, by what is missing.
Unregistered ==
    [fromMissing  |-> Transition("blue", "go", "green", NilFunc, NilFunc),
     toMissing    |-> Transition("red", "go", "blue", "ContextHasKey", NilFunc),
     bothMissing  |-> Transition("blue", "go", "blue", NilFunc, NilFunc),
     eventMissing |-> Transition("red", "stop", "green", NilFunc, "SetContextValue"),
     allMissing   |-> Transition("blue", "stop", "blue", NilFunc, NilFunc)]

\* AddTransition called on the machine itself, after the set-up, with one of
\* them.
CallAddTransitionUnregistered ==
    \E n \in DOMAIN Unregistered :
        LET r == AddTransition(sm, Unregistered[n]) IN Driven("AddTransition", n, Return(r.sm, NilResult, r.err, <<>>))

\* A query: the machine, the set-up and what the caller remembers stay.
Queried(op, arg, ans) ==
    /\ SetupDone
    /\ call' = Called(op, arg, sm, Return(sm, NilResult, NilError, <<>>))
    /\ answer' = ans
    /\ UNCHANGED <<sm, setup, blocked, path, started, builder>>
    /\ UNCHANGED concVars
    /\ UNCHANGED auxVars

CallCanTransition == \E e \in EventLabels : Queried("CanTransition", e, [NoAnswer EXCEPT !.can = CanTransition(sm, e)])

CallGetValidEvents == \E validEvents \in GetValidEvents(sm) : Queried("GetValidEvents", "", [NoAnswer EXCEPT !.valid = validEvents])

\* machine.GetContext().Set("token", v) by the caller, between two calls.
CallContextSet ==
    /\ SetupDone
    /\ \E v \in {"1", Nil} :
        /\ sm' = [sm EXCEPT !.context = Set(@, "token", v)]
        /\ call' = Called("ContextSet", v, sm, Return(sm', NilResult, NilError, <<>>))
    /\ UNCHANGED <<setup, blocked, path, started, answer, builder>>
    /\ UNCHANGED concVars
    /\ UNCHANGED auxVars

\* No ConfigLoader is in use.
NoLoader == [doc |-> "none", calls |-> 0, built |-> "none"]

\* No event bus is in use.
NoBus == "none"

AuxIdle ==
    /\ snap = NoSnapshot
    /\ loader = NoLoader
    /\ es = NoBus
    /\ chans = <<>>
    /\ fsms = <<>>
    /\ procs = <<>>
    /\ caller = NoBus
    /\ hist = NoBus

ConcIdle ==
    /\ thr = <<>>
    /\ mu = [writer |-> "", readers |-> {}]
    /\ ctxBusy = {}
    /\ crashed = FALSE
    /\ lastTo = ""
    /\ chained = TRUE
    /\ commits = 0
    /\ successes = 0
    /\ calls = 0

Init ==
    /\ sm = NewStateMachine
    /\ setup \in {[def |-> d, pc |-> 1] : d \in DOMAIN Definitions}
    /\ call = [op |-> "NewStateMachine", arg |-> "", pre |-> NewStateMachine, wasBlocked |-> "", result |-> NilResult, err |-> NilError, trace |-> <<>>]
    /\ blocked = ""
    /\ path = <<>>
    /\ started = NoState
    /\ answer = NoAnswer
    /\ builder = NoBuilder
    /\ ConcIdle
    /\ AuxIdle

Next ==
    \/ CallAddState
    \/ CallAddEvent
    \/ CallAddTransition
    \/ CallAddHook
    \/ CallRemoveTransition
    \/ CallBuilderHook
    \/ CallCanTransition
    \/ CallGetValidEvents
    \/ CallStart
    \/ CallStop
    \/ CallReset
    \/ CallSetState
    \/ CallSendEvent
    \/ CallContextSet
    \/ CallAddTransitionUnregistered

Spec == Init /\ [][Next]_vars

(***************************************************************************)
(* Properties of SendEvent, read off the record of the last call           *)
(***************************************************************************)

Range(f) == {f[k] : k \in DOMAIN f}

\* The hooks of one kind (or the action) that ran in a call, in order.
Ran(trace, kind) == [i \in 1..Len(SelectSeq(trace, LAMBDA x : x.kind = kind)) |-> SelectSeq(trace, LAMBDA x : x.kind = kind)[i].hook]

KindsRun(trace) == {trace[i].kind : i \in 1..Len(trace)}

\* The place of each kind in the transition protocol.
Rank(kind) ==
    CASE kind = BeforeTransition -> 1
      [] kind = OnStateExit -> 2
      [] kind = ActionRun -> 3
      [] kind = OnStateEnter -> 4
      [] kind = AfterTransition -> 5
      [] kind = OnTransitionError -> 6

InProtocolOrder(trace) == \A i, j \in 1..Len(trace) : i < j => Rank(trace[i].kind) <= Rank(trace[j].kind)

AllKindsHooked(m) == \A k \in HookTypes : m.hooks[k] # <<>>

\* The transitions registered for the pair (current state, event) of the
\* last call, whatever key they are stored under.
Registered(c) == {t \in Range(c.pre.transitions) : t.From = c.pre.currentState /\ t.Event = c.arg}

GuardPasses(t, c) == t.Condition = NilFunc \/ EvalCondition(t.Condition, c.pre.context)

ActionPasses(t, c) == t.Action = NilFunc \/ RunAction(t.Action, t.From, t.To, c.arg, c.pre.context).err = NilError

\* The last call was a SendEvent that found the machine running and the
\* event known.
Sent(c) == c.op = "SendEvent" /\ c.pre.running /\ c.arg \in c.pre.events

\* ... and its transition t passed its guard and its action returned an error.
ActionFailedIn(c, t) == Sent(c) /\ t \in Registered(c) /\ GuardPasses(t, c) /\ ~ActionPasses(t, c)

\* ... and the guard of its transition t returned false.
GuardFailedIn(c, t) == Sent(c) /\ t \in Registered(c) /\ ~GuardPasses(t, c)

\* Every registered hook of the kind ran once, in registration order.
FiredOnce(c, kind) == Ran(c.trace, kind) = c.pre.hooks[kind]

\* C1: a successful SendEvent on a machine with hooks of every kind runs
\* BeforeTransition, OnStateExit, the action, OnStateEnter, AfterTransition
\* in this order, every hook once; the current state is still the source
\* state up to and including the action and is the target from OnStateEnter
\* on; no OnTransitionError hook runs.
C1_HookOrder ==
    (call.op = "SendEvent" /\ call.err = NilError /\ AllKindsHooked(call.pre)) =>
        /\ InProtocolOrder(call.trace)
        /\ KindsRun(call.trace) \ {ActionRun} = {BeforeTransition, OnStateExit, OnStateEnter, AfterTransition}
        /\ \A t \in Registered(call) : (ActionRun \in KindsRun(call.trace)) <=> (t.Action # NilFunc)
        /\ Len(Ran(call.trace, ActionRun)) <= 1
        /\ \A k \in HookTypes \ {OnTransitionError} : FiredOnce(call, k)
        /\ \A i \in 1..Len(call.trace) :
              /\ call.trace[i].kind \in {BeforeTransition, OnStateExit, ActionRun} => call.trace[i].cur = call.result.FromState
              /\ call.trace[i].kind \in {OnStateEnter, AfterTransition} => call.trace[i].cur = call.result.ToState
        /\ call.result.FromState = call.pre.currentState
        /\ call.result.ToState = sm.currentState

C1_Witness ==
    /\ call.op = "SendEvent" /\ call.err = NilError /\ AllKindsHooked(call.pre)
    /\ ActionRun \in KindsRun(call.trace)
    /\ call.pre.currentState # sm.currentState

\* C2: on a running machine in state s with a registered transition (s,e,t)
\* whose guard is absent or true and whose action is absent or succeeds,
\* SendEvent(e) returns success, fromState s, toState t and no error, and
\* the current state becomes t; so the traffic light started in red is seen
\* in red, green, yellow, red, green under four timer events.
IsTrafficLight(m) ==
    /\ m.events = {"timer"}
    /\ Range(m.transitions) = {Transition("red", "timer", "green", NilFunc, NilFunc),
                               Transition("green", "timer", "yellow", NilFunc, NilFunc),
                               Transition("yellow", "timer", "red", NilFunc, NilFunc)}

C2_SendEventSucceeds ==
    /\ \A t \in Registered(call) :
          (Sent(call) /\ GuardPasses(t, call) /\ ActionPasses(t, call)) =>
              /\ call.err = NilError
              /\ call.result = TransitionResult(TRUE, call.pre.currentState, t.To, call.arg, NilError)
              /\ sm.currentState = t.To
    /\ (IsTrafficLight(sm) /\ Len(path) >= 5 /\ path[1] = "red") => SubSeq(path, 1, 5) = <<"red", "green", "yellow", "red", "green">>

C2_Witness ==
    /\ IsTrafficLight(sm)
    /\ call.op = "SendEvent"
    /\ Len(path) >= 5
    /\ SubSeq(path, 1, 5) = <<"red", "green", "yellow", "red", "green">>

\* C3: when the action of the selected transition T returns an error, the
\* current state after the call is T.from, the result has success=false and
\* carries the error, the call returns an error, and every OnTransitionError
\* hook runs exactly once.
C3_ActionErrorKeepsState ==
    \A t \in Registered(call) :
        ActionFailedIn(call, t) =>
            /\ sm.currentState = t.From
            /\ sm.currentState = call.pre.currentState
            /\ ~call.result.IsNil
            /\ ~call.result.Success
            /\ call.err # NilError
            /\ call.result.Error = call.err
            /\ FiredOnce(call, OnTransitionError)
            /\ \A i \in 1..Len(call.trace) :
                  call.trace[i].kind = OnTransitionError => call.trace[i].result = call.result

C3_Witness ==
    /\ \E t \in Registered(call) : ActionFailedIn(call, t) /\ t.To # t.From
    /\ Len(Ran(call.trace, OnTransitionError)) = 2

GuardRefuses ==
    \A t \in Registered(call) :
        GuardFailedIn(call, t) =>
            /\ call.err = FSMError("ConditionNotMet", call.pre.currentState, call.arg)
            /\ call.result = TransitionResult(FALSE, call.pre.currentState, call.pre.currentState, call.arg, call.err)
            /\ sm = call.pre
            /\ FiredOnce(call, OnTransitionError)
            /\ KindsRun(call.trace) \subseteq {OnTransitionError}

\* The last call repeats the SendEvent that the guard of t refused, after
\* nothing but context writes, and the guard now returns true.
RetryIn(c, t) == Sent(c) /\ c.wasBlocked = c.arg /\ t \in Registered(c) /\ GuardPasses(t, c)

PreconditionErrors == {"MachineNotRunning", "EventNotFound", "InvalidTransition"}

\* C6: SendEvent returns MachineNotRunning on a machine that is not running
\* (never started, or stopped and not started or reset since), EventNotFound
\* on a running machine for an unknown event, InvalidTransition on a running
\* machine for a known event without a transition from the current state;
\* in the three cases the current state and running are unchanged and no
\* action runs.
C6_PreconditionErrors ==
    /\ call.op = "SendEvent" =>
          /\ ~call.pre.running => call.err = FSMError("MachineNotRunning", "", call.arg)
          /\ (call.pre.running /\ call.arg \notin call.pre.events) => call.err = FSMError("EventNotFound", "", call.arg)
          /\ (Sent(call) /\ Registered(call) = {}) => call.err = FSMError("InvalidTransition", call.pre.currentState, call.arg)
          /\ call.err.Type \in PreconditionErrors =>
                /\ sm.currentState = call.pre.currentState
                /\ sm.running = call.pre.running
                /\ sm.context = call.pre.context
                /\ ActionRun \notin KindsRun(call.trace)
    /\ sm.initialState = NoState => ~sm.running
    /\ call.op = "Stop" => ~sm.running
    /\ (~call.pre.running /\ sm.running) => call.op \in {"Start", "Reset"}

C6_Witness ==
    /\ call.op = "SendEvent"
    /\ call.err.Type = "MachineNotRunning"
    /\ call.pre.initialState # NoState
    /\ call.arg \notin sm.events

\* C7: every SendEvent that fails a precondition runs every
\* OnTransitionError hook once, handing it a result with success=false and
\* the error.
C7_PreconditionErrorHooks ==
    (call.op = "SendEvent" /\ call.err.Type \in PreconditionErrors) =>
        /\ FiredOnce(call, OnTransitionError)
        /\ \A i \in 1..Len(call.trace) :
              call.trace[i].kind = OnTransitionError =>
                  (~call.trace[i].result.Success /\ call.trace[i].result.Error = call.err)

\* C8: when the action returns an error, the error SendEvent returns and
\* attaches to the result has kind ActionFailed, wraps the action's error
\* and carries the source state and the event.
C8_ActionFailedKind ==
    \A t \in Registered(call) :
        ActionFailedIn(call, t) =>
            /\ call.err = [Type |-> "ActionFailed", State |-> t.From, Event |-> call.arg, Cause |-> ActionError.Cause]
            /\ call.result.Error = call.err

(***************************************************************************)
(* Several threads on one machine.  SendEvent holds the machine lock from  *)
(* its first line to its return (state_machine.go 104-105); the context's  *)
(* map has no lock of its own (types.go 171-203), so an access to it is    *)
(* two steps, its begin and its end, and two accesses can overlap.         *)
(***************************************************************************)

Threads == {"t1", "t2"}

\* The number of calls the threads make in one run.
MaxCalls == 4

IdleThread == [pc |-> "idle", ev |-> "", tr |-> NoTransition, res |-> NilResult, err |-> NilError, seen |-> "red", racy |-> FALSE]

\* Running a set-up program to its end on a machine.
RECURSIVE Configure(_, _)
Configure(m, script) ==
    IF script = <<>> THEN m
    ELSE LET c == Head(script)
             m1 == CASE c.op = "AddState" -> AddState(m, c.state)
                     [] c.op = "AddEvent" -> AddEvent(m, c.event)
                     [] c.op = "AddTransition" -> AddTransition(m, c.transition).sm
                     [] c.op \in {"AddHook", "BuilderHook"} -> AddHook(m, c.hookType, c.hook)
                     [] c.op = "RemoveTransition" -> RemoveTransition(m, c.from, c.event).sm
         IN Configure(m1, Tail(script))

\* sync.RWMutex: Lock waits for the writer and the readers to leave, RLock
\* for the writer.
CanLock_NoWait(l) == TRUE

CanLock(l) == l.writer = "" /\ l.readers = {}

\* RLock that does not wait for the writer.
CanRLock_NoWait(l) == TRUE

CanRLock(l) == l.writer = ""

\* Two accesses to one Go map conflict when they come from two threads and
\* one of them writes.
Conflicts(t, mode) == {a \in ctxBusy : a[1] # t /\ (mode = "w" \/ a[2] = "w")}

\* Thread t begins an access to the context's map; it and the accesses it
\* overlaps with are marked racy.
BeginAccess(t, mode, next) ==
    /\ ctxBusy' = ctxBusy \cup {<<t, mode>>}
    /\ thr' = [u \in Threads |->
                 IF u = t THEN [next EXCEPT !.racy = Conflicts(t, mode) # {}]
                 ELSE IF \E a \in Conflicts(t, mode) : a[1] = u THEN [thr[u] EXCEPT !.racy = TRUE]
                 ELSE thr[u]]

EndAccess(t, mode) == ctxBusy' = ctxBusy \ {<<t, mode>>}

\* What a map read returns: the stored value, or anything when it raced.
ReadValues(t, key) == IF thr[t].racy THEN {Nil, "1"} ELSE {Get(sm.context, key)}

Live == ~crashed

\* A thread calls SendEvent(e), CurrentState() or, as the bus processor
\* does for a message {token: 1}, processEventOnMachine.
Call(t) ==
    /\ Live
    /\ thr[t].pc = "idle"
    /\ calls < MaxCalls
    /\ calls' = calls + 1
    /\ \/ \E e \in EventLabels : thr' = [thr EXCEPT ![t] = [IdleThread EXCEPT !.pc = "lock", !.ev = e, !.seen = thr[t].seen]]
       \/ thr' = [thr EXCEPT ![t] = [IdleThread EXCEPT !.pc = "rlock", !.seen = thr[t].seen]]
       \/ \E e \in EventLabels : thr' = [thr EXCEPT ![t] = [IdleThread EXCEPT !.pc = "getContext", !.ev = e, !.seen = thr[t].seen]]
    /\ UNCHANGED <<sm, mu, ctxBusy, crashed, lastTo, chained, commits, successes>>
    /\ UNCHANGED seqVars

\* processEventOnMachine: machine.GetContext() takes the read lock, returns
\* the context and releases the lock (state_machine.go 351-355).
GetContext(t) ==
    /\ Live
    /\ thr[t].pc = "getContext"
    /\ CanRLock(mu)
    /\ thr' = [thr EXCEPT ![t].pc = "set"]
    /\ UNCHANGED <<sm, mu, ctxBusy, crashed, lastTo, chained, commits, successes, calls>>
    /\ UNCHANGED seqVars

\* ... machineContext.Set(key, value) begins, no lock held.
SetBegin(t) ==
    /\ Live
    /\ thr[t].pc = "set"
    /\ BeginAccess(t, "w", [thr[t] EXCEPT !.pc = "merge"])
    /\ UNCHANGED <<sm, mu, crashed, lastTo, chained, commits, successes, calls>>
    /\ UNCHANGED seqVars

\* ... the Set ends, and SendEvent(msg.Event) is called.
MergeDone(t) ==
    /\ Live
    /\ thr[t].pc = "merge"
    /\ EndAccess(t, "w")
    /\ sm' = [sm EXCEPT !.context = Set(@, "token", "1")]
    /\ thr' = [thr EXCEPT ![t].pc = "lock", ![t].racy = FALSE]
    /\ UNCHANGED <<mu, crashed, lastTo, chained, commits, successes, calls>>
    /\ UNCHANGED seqVars

\* SendEvent: sm.mu.Lock()
Lock(t) ==
    /\ Live
    /\ thr[t].pc = "lock"
    /\ CanLock(mu)
    /\ mu' = [mu EXCEPT !.writer = t]
    /\ thr' = [thr EXCEPT ![t].pc = "check"]
    /\ UNCHANGED <<sm, ctxBusy, crashed, lastTo, chained, commits, successes, calls>>
    /\ UNCHANGED seqVars

\* The transition SendEvent selects, once the machine is known to run and
\* the event to exist.
Selected(t) == sm.transitions[transitionKey(sm.currentState, thr[t].ev)]

PassesPreconditions(t) == sm.running /\ thr[t].ev \in sm.events /\ transitionKey(sm.currentState, thr[t].ev) \in DOMAIN sm.transitions

\* The thread as it enters the commit sequence: the result is built from
\* the current state (state_machine.go 165-172).
Committing(t, transition) == [thr[t] EXCEPT !.pc = "action", !.tr = transition, !.racy = FALSE, !.res = TransitionResult(TRUE, sm.currentState, transition.To, thr[t].ev, NilError)]

\* The thread as it takes one of the error returns of SendEvent.
Failing(t, ret) == [thr[t] EXCEPT !.pc = "unlock", !.racy = FALSE, !.res = ret.result, !.err = ret.err]

\* SendEvent under the lock, up to the call of the guard (107-143): the
\* error returns, or the guard's Get on the context begins.
Check(t) ==
    /\ Live
    /\ thr[t].pc = "check"
    /\ IF ~PassesPreconditions(t)
       THEN thr' = [thr EXCEPT ![t] = Failing(t, SendEvent(sm, thr[t].ev))] /\ UNCHANGED ctxBusy
       ELSE IF Selected(t).Condition = NilFunc
            THEN thr' = [thr EXCEPT ![t] = Committing(t, Selected(t))] /\ UNCHANGED ctxBusy
            ELSE BeginAccess(t, "r", [thr[t] EXCEPT !.pc = "guard", !.tr = Selected(t)])
    /\ UNCHANGED <<sm, mu, crashed, lastTo, chained, commits, successes, calls>>
    /\ UNCHANGED seqVars

\* The guard's Get ends and the guard returns (143-163).
GuardDone(t) ==
    /\ Live
    /\ thr[t].pc = "guard"
    /\ EndAccess(t, "r")
    /\ \E v \in ReadValues(t, "token") :
          LET seenBy == [sm EXCEPT !.context = Set(@, "token", v)]
          IN IF EvalCondition(thr[t].tr.Condition, seenBy.context)
             THEN thr' = [thr EXCEPT ![t] = Committing(t, thr[t].tr)]
             ELSE thr' = [thr EXCEPT ![t] = Failing(t, GuardedTransition(seenBy, thr[t].tr, thr[t].ev))]
    /\ UNCHANGED <<sm, mu, crashed, lastTo, chained, commits, successes, calls>>
    /\ UNCHANGED seqVars

\* The BeforeTransition and OnStateExit hooks, then the action (174-188):
\* none, one that fails, or one whose Set on the context begins.
Action(t) ==
    /\ Live
    /\ thr[t].pc = "action"
    /\ LET act == RunAction(thr[t].tr.Action, sm.currentState, thr[t].tr.To, thr[t].ev, sm.context)
       IN IF thr[t].tr.Action = NilFunc
          THEN thr' = [thr EXCEPT ![t].pc = "commit"] /\ UNCHANGED ctxBusy
          ELSE IF act.err # NilError
               THEN /\ thr' = [thr EXCEPT ![t] = Failing(t, Return(sm, [thr[t].res EXCEPT !.Success = FALSE, !.Error = act.err], act.err, <<>>))]
                    /\ UNCHANGED ctxBusy
               ELSE BeginAccess(t, "w", [thr[t] EXCEPT !.pc = "actionWrite"])
    /\ UNCHANGED <<sm, mu, crashed, lastTo, chained, commits, successes, calls>>
    /\ UNCHANGED seqVars

\* The action's Set ends and the action returns nil.
ActionDone(t) ==
    /\ Live
    /\ thr[t].pc = "actionWrite"
    /\ EndAccess(t, "w")
    /\ sm' = [sm EXCEPT !.context = RunAction(thr[t].tr.Action, sm.currentState, thr[t].tr.To, thr[t].ev, @).context]
    /\ thr' = [thr EXCEPT ![t].pc = "commit", ![t].racy = FALSE]
    /\ UNCHANGED <<mu, crashed, lastTo, chained, commits, successes, calls>>
    /\ UNCHANGED seqVars

\* sm.currentState = transition.To, then the OnStateEnter and
\* AfterTransition hooks (190-197).
Commit(t) ==
    /\ Live
    /\ thr[t].pc = "commit"
    /\ sm' = [sm EXCEPT !.currentState = thr[t].tr.To]
    /\ commits' = commits + 1
    /\ thr' = [thr EXCEPT ![t].pc = "unlock"]
    /\ UNCHANGED <<mu, ctxBusy, crashed, lastTo, chained, successes, calls>>
    /\ UNCHANGED seqVars

\* The deferred sm.mu.Unlock() and the return to the caller, who counts the
\* successes and compares each with the one before.
Unlock(t) ==
    /\ Live
    /\ thr[t].pc = "unlock"
    /\ mu' = [mu EXCEPT !.writer = ""]
    /\ thr' = [thr EXCEPT ![t].pc = "idle"]
    /\ IF thr[t].res.Success
       THEN /\ successes' = successes + 1
            /\ chained' = (chained /\ thr[t].res.FromState = lastTo)
            /\ lastTo' = thr[t].res.ToState
       ELSE UNCHANGED <<successes, chained, lastTo>>
    /\ UNCHANGED <<sm, ctxBusy, crashed, commits, calls>>
    /\ UNCHANGED seqVars

\* CurrentState: sm.mu.RLock()
RLock(t) ==
    /\ Live
    /\ thr[t].pc = "rlock"
    /\ CanRLock(mu)
    /\ mu' = [mu EXCEPT !.readers = @ \cup {t}]
    /\ thr' = [thr EXCEPT ![t].pc = "read"]
    /\ UNCHANGED <<sm, ctxBusy, crashed, lastTo, chained, commits, successes, calls>>
    /\ UNCHANGED seqVars

\* CurrentState: return sm.currentState, and the deferred RUnlock.
Read(t) ==
    /\ Live
    /\ thr[t].pc = "read"
    /\ mu' = [mu EXCEPT !.readers = @ \ {t}]
    /\ thr' = [thr EXCEPT ![t].pc = "idle", ![t].seen = sm.currentState]
    /\ UNCHANGED <<sm, ctxBusy, crashed, lastTo, chained, commits, successes, calls>>
    /\ UNCHANGED seqVars

\* The Go runtime may stop the process when it meets a map access that
\* overlaps with a write ("concurrent map read and map write").
Crash(t) ==
    /\ Live
    /\ thr[t].racy
    /\ \E a \in ctxBusy : a[1] = t
    /\ crashed' = TRUE
    /\ UNCHANGED <<sm, thr, mu, ctxBusy, lastTo, chained, commits, successes, calls>>
    /\ UNCHANGED seqVars

\* A machine configured by Gate or by Plain and started in red.
InitConc ==
    /\ \E d \in {2, 3} :
          /\ sm = Start(Configure(NewStateMachine, Definitions[d]), "red").sm
          /\ setup = [def |-> d, pc |-> Len(Definitions[d]) + 1]
    /\ call = [op |-> "Start", arg |-> "red", pre |-> NewStateMachine, wasBlocked |-> "", result |-> NilResult, err |-> NilError, trace |-> <<>>]
    /\ blocked = ""
    /\ path = <<"red">>
    /\ started = "red"
    /\ answer = NoAnswer
    /\ builder = NoBuilder
    /\ AuxIdle
    /\ thr = [t \in Threads |-> IdleThread]
    /\ mu = [writer |-> "", readers |-> {}]
    /\ ctxBusy = {}
    /\ crashed = FALSE
    /\ lastTo = "red"
    /\ chained = TRUE
    /\ commits = 0
    /\ successes = 0
    /\ calls = 0

NextConc ==
    \E t \in Threads :
        \/ Call(t)
        \/ GetContext(t)
        \/ SetBegin(t)
        \/ MergeDone(t)
        \/ Lock(t)
        \/ Check(t)
        \/ GuardDone(t)
        \/ Action(t)
        \/ ActionDone(t)
        \/ Commit(t)
        \/ Unlock(t)
        \/ RLock(t)
        \/ Read(t)
        \/ Crash(t)

SpecConc == InitConc /\ [][NextConc]_vars

(***************************************************************************)
(* Properties of concurrent callers                                        *)
(***************************************************************************)

\* The positions of a thread between SendEvent's Lock and its Unlock.
InSendEvent(t) == thr[t].pc \in {"check", "guard", "action", "actionWrite", "commit", "unlock"}

\* C9: concurrent SendEvent calls are serialized.  One call at a time is
\* between Lock and Unlock, and no reader with it; the state a call built
\* its result from is still the current state until the call commits; the
\* current state and every state a reader saw are states of the
\* definition; every successful result starts where the successful result
\* before it ended; the state commits are as many as the calls that
\* returned success (and those that committed and are about to return).
C9_Serialized ==
    /\ \A t, u \in Threads : (InSendEvent(t) /\ InSendEvent(u)) => t = u
    /\ \A t \in Threads : InSendEvent(t) => (mu.writer = t /\ mu.readers = {})
    /\ \A t \in Threads : thr[t].pc \in {"action", "actionWrite", "commit"} => thr[t].res.FromState = sm.currentState
    /\ sm.currentState \in sm.states
    /\ \A t \in Threads : thr[t].seen \in sm.states
    /\ chained
    /\ commits = successes + Cardinality({t \in Threads : thr[t].pc = "unlock" /\ thr[t].res.Success})

C9_Witness ==
    /\ \E t, u \in Threads : thr[t].pc = "commit" /\ thr[u].pc = "lock"
    /\ successes >= 1
    /\ \E t \in Threads : thr[t].seen # "red"

\* C10: no two threads are inside an access to the context's map at the
\* same time unless both only read it.
C10_ContextAccessAtomic == \A a, b \in ctxBusy : a[1] # b[1] => (a[2] = "r" /\ b[2] = "r")

(***************************************************************************)
(* Properties of the lifecycle calls and of SetState                       *)
(***************************************************************************)

\* The entries of one kind in the trace of a call.
Entries(trace, kind) == SelectSeq(trace, LAMBDA x : x.kind = kind)

\* Every entry of the kind was handed a successful result from `from` to
\* `to`, and could observe `cur` as the current state.
Handed(trace, kind, from, to, cur) ==
    \A i \in 1..Len(Entries(trace, kind)) :
        /\ Entries(trace, kind)[i].result = TransitionResult(TRUE, from, to, "", NilError)
        /\ Entries(trace, kind)[i].cur = cur

\* C11: the initial state is recorded by the first successful Start only:
\* after Start(s1) and a later Start(s2), whatever was called in between, a
\* Reset places the machine in s1.
C11_FirstStartRecorded ==
    (call.op = "Reset" /\ started # NoState) => (call.err = NilError /\ sm.currentState = started)

\* C12 as claimed: Reset on a machine that has been started, running or
\* stopped, runs the OnStateExit hooks for the current state and then the
\* OnStateEnter hooks for the initial state, leaves the machine running in
\* the initial state and runs no other hook.
C12_ResetExitsAndEnters ==
    (call.op = "Reset" /\ started # NoState) =>
        /\ call.err = NilError
        /\ FiredOnce(call, OnStateExit)
        /\ FiredOnce(call, OnStateEnter)
        /\ InProtocolOrder(call.trace)
        /\ KindsRun(call.trace) \subseteq {OnStateExit, OnStateEnter}
        /\ sm.currentState = call.pre.initialState
        /\ sm.running

\* C12 amended: Reset on a machine that has been started runs, when the
\* machine is running, the OnStateExit hooks for the current state and then
\* the OnStateEnter hooks for the initial state, and, when it is stopped,
\* the OnStateEnter hooks only; in both cases it leaves the machine running
\* in the initial state and runs no BeforeTransition, AfterTransition or
\* OnTransitionError hook.
C12_ResetExitsWhenRunning ==
    (call.op = "Reset" /\ started # NoState) =>
        /\ call.err = NilError
        /\ call.pre.running => FiredOnce(call, OnStateExit)
        /\ ~call.pre.running => OnStateExit \notin KindsRun(call.trace)
        /\ FiredOnce(call, OnStateEnter)
        /\ InProtocolOrder(call.trace)
        /\ KindsRun(call.trace) \subseteq {OnStateExit, OnStateEnter}
        /\ Handed(call.trace, OnStateExit, call.pre.currentState, call.pre.initialState, call.pre.currentState)
        /\ Handed(call.trace, OnStateEnter, call.pre.currentState, call.pre.initialState, call.pre.initialState)
        /\ sm.currentState = call.pre.initialState
        /\ sm.running

C12_Witness ==
    /\ call.op = "Reset"
    /\ call.pre.running
    /\ call.pre.currentState # call.pre.initialState
    /\ Len(Ran(call.trace, OnStateExit)) = 2
    /\ Len(Ran(call.trace, OnStateEnter)) = 1

\* C13: Start(s) for a registered state s on a machine that is not running
\* (never started, or stopped) places it in s, running, and runs the
\* OnStateEnter hooks once; Stop on a running machine leaves it not running
\* in the same state and runs the OnStateExit hooks once for that state;
\* neither runs a BeforeTransition or AfterTransition hook.
C13_StartAndStop ==
    /\ (call.op = "Start" /\ call.arg \in call.pre.states /\ ~call.pre.running) =>
          /\ call.err = NilError
          /\ sm.currentState = call.arg
          /\ sm.running
          /\ FiredOnce(call, OnStateEnter)
          /\ Handed(call.trace, OnStateEnter, NoState, call.arg, call.arg)
          /\ KindsRun(call.trace) \subseteq {OnStateEnter}
    /\ (call.op = "Stop" /\ call.pre.running) =>
          /\ call.err = NilError
          /\ ~sm.running
          /\ sm.currentState = call.pre.currentState
          /\ FiredOnce(call, OnStateExit)
          /\ Handed(call.trace, OnStateExit, call.pre.currentState, NoState, call.pre.currentState)
          /\ KindsRun(call.trace) \subseteq {OnStateExit}
    /\ call.op \in {"Start", "Stop"} => KindsRun(call.trace) \cap {BeforeTransition, AfterTransition} = {}

C13_Witness ==
    /\ call.op = "Stop"
    /\ call.pre.running
    /\ call.pre.currentState \notin {NoState, started}
    /\ Len(Ran(call.trace, OnStateExit)) = 2

\* C14: Reset on a machine that was never started returns NoInitialState,
\* runs no hook and leaves the machine as it was, not running.
C14_ResetNeverStarted ==
    (call.op = "Reset" /\ started = NoState) =>
        /\ call.err = FSMError("NoInitialState", "", "")
        /\ call.trace = <<>>
        /\ sm = call.pre
        /\ ~sm.running

C14_Witness ==
    /\ call.op = "Reset"
    /\ started = NoState
    /\ AllKindsHooked(call.pre)
    /\ call.err.Type = "NoInitialState"

\* C15: SetState(s) for a registered state s places the machine in s,
\* whatever the guards say and whether or not a transition leads to s; it
\* runs the OnStateExit hooks for the old state (when there is one) and then
\* the OnStateEnter hooks for s, and no BeforeTransition, AfterTransition or
\* OnTransitionError hook.
C15_SetStatePlaces ==
    (call.op = "SetState" /\ call.arg \in call.pre.states) =>
        /\ call.err = NilError
        /\ sm.currentState = call.arg
        /\ call.pre.currentState # NoState => FiredOnce(call, OnStateExit)
        /\ FiredOnce(call, OnStateEnter)
        /\ InProtocolOrder(call.trace)
        /\ KindsRun(call.trace) \subseteq {OnStateExit, OnStateEnter}
        /\ \A i \in 1..Len(call.trace) : call.trace[i].result = TransitionResult(TRUE, call.pre.currentState, call.arg, "", NilError)

\* SetState(yellow) in red, where the only transition to yellow is guarded
\* and the guard is false.
C15_Witness ==
    /\ call.op = "SetState"
    /\ call.pre.currentState = "red"
    /\ call.arg = "yellow"
    /\ \E t \in Range(call.pre.transitions) : t.From = "red" /\ t.To = "yellow" /\ ~GuardPasses(t, call)
    /\ sm.currentState = "yellow"
    /\ Len(Ran(call.trace, OnStateExit)) = 2

(***************************************************************************)
(* Properties of hook dispatch, of the queries and of the transition table *)
(***************************************************************************)

\* The calls of the set-up program made so far.
Done == SubSeq(Definitions[setup.def], 1, setup.pc - 1)

\* The hooks registered so far for one kind, in the order of the calls that
\* registered them.
HooksAdded(kind) ==
    LET adds == SelectSeq(Done, LAMBDA c : c.op \in {"AddHook", "BuilderHook"} /\ c.hookType = kind)
    IN [i \in 1..Len(adds) |-> adds[i].hook]

\* The entries of one dispatch are next to each other in the trace.
Contiguous(trace) ==
    \A i, j, k \in 1..Len(trace) : (i < j /\ j < k /\ trace[i].kind = trace[k].kind) => trace[j].kind = trace[i].kind

\* C16: for hooks h1..hn registered in this order for one kind, through
\* AddHook or a hook method of the builder, every dispatch of the kind calls
\* h1..hn, each once, in this order, before anything else of the call runs.
C16_RegistrationOrder ==
    /\ \A k \in HookTypes : sm.hooks[k] = HooksAdded(k)
    /\ \A k \in KindsRun(call.trace) \ {ActionRun} : Ran(call.trace, k) = HooksAdded(k)
    /\ Contiguous(call.trace)

C16_Witness ==
    /\ call.op = "SendEvent"
    /\ call.err = NilError
    /\ Ran(call.trace, OnStateEnter) = <<"h2", "h1", "h3">>
    /\ Len(call.trace) = 7

\* The transition for (current state, e) exists and its guard lets it pass.
Passable(m, e) ==
    \E t \in Range(m.transitions) :
        /\ t.From = m.currentState
        /\ t.Event = e
        /\ (t.Condition = NilFunc \/ EvalCondition(t.Condition, m.context))

\* C17: CanTransition(e) is true iff the machine is running, e is in the
\* event set, a transition is registered for (current state, e) and its
\* guard is absent or true on the current context; GetValidEvents returns
\* the events for which CanTransition is true, each once, and none when the
\* machine is not running; neither query changes the machine or runs a hook.
C17_Queries ==
    /\ call.op = "CanTransition" =>
          /\ answer.can <=> (call.pre.running /\ call.arg \in call.pre.events /\ Passable(call.pre, call.arg))
          /\ sm = call.pre
          /\ call.trace = <<>>
    /\ call.op = "GetValidEvents" =>
          /\ Range(answer.valid) = {e \in call.pre.events \cup EventLabels : CanTransition(call.pre, e)}
          /\ Range(answer.valid) = {e \in call.pre.events : call.pre.running /\ Passable(call.pre, e)}
          /\ Len(answer.valid) = Cardinality(Range(answer.valid))
          /\ ~call.pre.running => answer.valid = <<>>
          /\ sm = call.pre
          /\ call.trace = <<>>

\* In green both events pass; in red a guard holds one of them back.
C17_Witness ==
    /\ call.op = "GetValidEvents"
    /\ call.pre.running
    /\ Len(answer.valid) = 1
    /\ \E e \in call.pre.events \ Range(answer.valid) : transitionKey(call.pre.currentState, e) \in DOMAIN call.pre.transitions

\* What the calls made so far leave registered for a pair: the transition
\* of the last AddTransition for it, unless a RemoveTransition came later.
Touches(c, from, event) ==
    \/ c.op = "AddTransition" /\ c.transition.From = from /\ c.transition.Event = event
    \/ c.op = "RemoveTransition" /\ c.from = from /\ c.event = event

Latest(from, event) ==
    LET touching == {i \in 1..Len(Done) : Touches(Done[i], from, event)}
        last == CHOOSE i \in touching : \A j \in touching : j <= i
    IN IF touching = {} THEN {}
       ELSE IF Done[last].op = "AddTransition" THEN {Done[last].transition} ELSE {}

\* The AddTransition calls made so far for a pair.
AddedFor(from, event) == {i \in 1..Len(Done) : Done[i].op = "AddTransition" /\ Touches(Done[i], from, event)}

\* C20: after any sequence of AddTransition and RemoveTransition calls the
\* machine holds at most one transition per (from, event) pair, the one of
\* the last AddTransition for the pair; SendEvent uses the target, the guard
\* and the action of that one.
C20_LastWriterWins ==
    /\ \A t1, t2 \in Range(sm.transitions) : (t1.From = t2.From /\ t1.Event = t2.Event) => t1 = t2
    /\ Cardinality(DOMAIN sm.transitions) = Cardinality(Range(sm.transitions))
    /\ \A from \in StateLabels, event \in EventLabels :
          {t \in Range(sm.transitions) : t.From = from /\ t.Event = event} = Latest(from, event)
    /\ Sent(call) =>
          \A t \in Latest(call.pre.currentState, call.arg) :
              /\ ~GuardPasses(t, call) <=> call.err.Type = "ConditionNotMet"
              /\ GuardPasses(t, call) => Ran(call.trace, ActionRun) = (IF t.Action = NilFunc THEN <<>> ELSE <<t.Action>>)
              /\ call.err = NilError => sm.currentState = t.To
              /\ ~call.result.IsNil /\ call.result.ToState = (IF call.err.Type = "ConditionNotMet" THEN t.From ELSE t.To)

\* SendEvent(go) in red moved the machine to yellow, by the second of the
\* two transitions added for (red, go).
C20_Witness ==
    /\ Sent(call)
    /\ Cardinality(AddedFor(call.pre.currentState, call.arg)) = 2
    /\ call.err = NilError
    /\ Ran(call.trace, ActionRun) = <<"SetContextValue">>
    /\ sm.currentState = "yellow"

(***************************************************************************)
(* A caller of the builder: any calls of its methods, Build among them,    *)
(* on a new builder.                                                       *)
(***************************************************************************)

\* The number of calls made on the builder in one run.
MaxBuilderCalls == 5

\* The (from, event, to) triples the caller hands to the builder.
BuilderTriples == {<<"red", "go", "green">>, <<"green", "go", "red">>}

\* The builder as the variables hold it.
TheBuilder == [machine |-> sm, initialState |-> builder.initialState]

\* A call on the builder: the builder it leaves, the transition it was
\* handed (if any) and what it returned.
Built(op, arg, b, added, returned, err, trace) ==
    /\ builder.calls < MaxBuilderCalls
    /\ sm' = b.machine
    /\ builder' = [initialState |-> b.initialState, calls |-> builder.calls + 1, returned |-> returned, added |-> added]
    /\ call' = Called(op, arg, sm, Return(b.machine, NilResult, err, trace))
    /\ started' = IF op = "Build" /\ b.machine.running /\ started = NoState THEN b.initialState ELSE started
    /\ UNCHANGED <<setup, blocked, path, answer>>
    /\ UNCHANGED concVars
    /\ UNCHANGED auxVars

BuilderAddState ==
    \E state \in {"red", "green"} :
        Built("AddState", state, FSMBuilder_AddState(TheBuilder, state), NoTransition, "none", NilError, <<>>)

BuilderAddStates == Built("AddStates", "", AddStates(TheBuilder, <<"red", "green">>), NoTransition, "none", NilError, <<>>)

BuilderAddEvent == Built("AddEvent", "go", FSMBuilder_AddEvent(TheBuilder, "go"), NoTransition, "none", NilError, <<>>)

BuilderAddEvents == Built("AddEvents", "", AddEvents(TheBuilder, <<"go", "timer">>), NoTransition, "none", NilError, <<>>)

BuilderAddTransition ==
    \E tr \in BuilderTriples :
        Built("AddTransition", "", FSMBuilder_AddTransition(TheBuilder, tr[1], tr[2], tr[3]),
              Transition(tr[1], tr[2], tr[3], NilFunc, NilFunc), "none", NilError, <<>>)

BuilderAddTransitionWithCondition ==
    \E tr \in BuilderTriples :
        Built("AddTransitionWithCondition", "", AddTransitionWithCondition(TheBuilder, tr[1], tr[2], tr[3], "ContextHasKey"),
              Transition(tr[1], tr[2], tr[3], "ContextHasKey", NilFunc), "none", NilError, <<>>)

BuilderAddTransitionWithAction ==
    \E tr \in BuilderTriples :
        Built("AddTransitionWithAction", "", AddTransitionWithAction(TheBuilder, tr[1], tr[2], tr[3], "SetContextValue"),
              Transition(tr[1], tr[2], tr[3], NilFunc, "SetContextValue"), "none", NilError, <<>>)

BuilderAddTransitionFull ==
    \E tr \in BuilderTriples :
        Built("AddTransitionFull", "", AddTransitionFull(TheBuilder, tr[1], tr[2], tr[3], "ContextHasKey", "fail"),
              Transition(tr[1], tr[2], tr[3], "ContextHasKey", "fail"), "none", NilError, <<>>)

BuilderSetInitialState ==
    \E state \in {"red", "yellow"} :
        Built("SetInitialState", state, SetInitialState(TheBuilder, state), NoTransition, "none", NilError, <<>>)

BuilderBuild == \E r \in Build(TheBuilder) : Built("Build", "", r.b, NoTransition, r.machine, r.err, r.trace)

InitBuilder ==
    /\ sm = NewBuilder.machine
    /\ builder = [NoBuilder EXCEPT !.initialState = NewBuilder.initialState]
    /\ setup = [def |-> 1, pc |-> 1]
    /\ call = [op |-> "NewBuilder", arg |-> "", pre |-> NewStateMachine, wasBlocked |-> "", result |-> NilResult, err |-> NilError, trace |-> <<>>]
    /\ blocked = ""
    /\ path = <<>>
    /\ started = NoState
    /\ answer = NoAnswer
    /\ ConcIdle
    /\ AuxIdle

NextBuilder ==
    \/ BuilderAddState
    \/ BuilderAddStates
    \/ BuilderAddEvent
    \/ BuilderAddEvents
    \/ BuilderAddTransition
    \/ BuilderAddTransitionWithCondition
    \/ BuilderAddTransitionWithAction
    \/ BuilderAddTransitionFull
    \/ BuilderSetInitialState
    \/ BuilderBuild

SpecBuilder == InitBuilder /\ [][NextBuilder]_vars

\* Every transition of the machine refers to registered states and to a
\* registered event.
Closed(m) == \A t \in Range(m.transitions) : t.From \in m.states /\ t.To \in m.states /\ t.Event \in m.events

\* C18: after any calls on the builder, once Build succeeds every
\* transition's from and to are in the state set and its event is in the
\* event set, and so is the initial state if one was set; for every
\* transition handed to one of the four AddTransition overloads registers
\* the states and the event it refers to, and is then registered itself.
C18_BuilderAutoRegisters ==
    /\ builder.added # NoTransition =>
          /\ {builder.added.From, builder.added.To} \subseteq sm.states
          /\ builder.added.Event \in sm.events
          /\ builder.added \in Range(sm.transitions)
    /\ (call.op = "Build" /\ call.err = NilError) =>
          /\ Closed(sm)
          /\ builder.initialState # NoState => builder.initialState \in sm.states

\* Build succeeded on a builder that had two calls: one AddTransition
\* overload and Build, no AddState and no AddEvent.
C18_Witness ==
    /\ call.op = "Build"
    /\ call.err = NilError
    /\ builder.calls = 2
    /\ builder.returned = "machine"
    /\ Cardinality(sm.states) = 2
    /\ sm.transitions # EmptyMap

\* C19: Build on a builder without states fails with NoStates and on one
\* (with states and) without events with NoEvents, and returns no machine;
\* when Build succeeds and an initial state was set, the machine returned
\* is running in that state, and when none was set it is not running and
\* has no current state.
C19_BuildValidates ==
    call.op = "Build" =>
        /\ call.pre.states = {} => call.err = FSMError("NoStates", "", "")
        /\ (call.pre.states # {} /\ call.pre.events = {}) => call.err = FSMError("NoEvents", "", "")
        /\ call.err # NilError => (builder.returned = "nil" /\ sm = call.pre)
        /\ (call.pre.states # {} /\ call.pre.events # {}) => call.err = NilError
        /\ call.err = NilError =>
              /\ builder.returned = "machine"
              /\ builder.initialState # NoState => (sm.running /\ sm.currentState = builder.initialState)
              /\ builder.initialState = NoState => (~sm.running /\ sm.currentState = NoState)

\* Build failed for want of events on a builder that has states.
C19_Witness ==
    /\ call.op = "Build"
    /\ call.err.Type = "NoEvents"
    /\ call.pre.states # {}
    /\ builder.returned = "nil"

(***************************************************************************)
(* AddTransition called on the machine itself                              *)
(***************************************************************************)

\* C21: AddTransition called directly with a from or a to state that is not
\* in the state set returns StateNotFound, naming a missing state; with both
\* states registered and an event that is not in the event set it returns
\* EventNotFound, naming the event; in either case the transition table, the
\* state set and the event set (the whole machine) are as before the call.
C21_AddTransitionRejects ==
    call.op = "AddTransition" /\ call.arg \in DOMAIN Unregistered =>
        LET t == Unregistered[call.arg]
            missing == {t.From, t.To} \ call.pre.states
        IN /\ missing # {} => call.err.Type = "StateNotFound" /\ call.err.State \in missing
           /\ missing = {} /\ t.Event \notin call.pre.events => call.err.Type = "EventNotFound" /\ call.err.Event = t.Event
           /\ missing # {} \/ t.Event \notin call.pre.events =>
                 /\ sm.transitions = call.pre.transitions
                 /\ sm.states = call.pre.states
                 /\ sm.events = call.pre.events
                 /\ sm = call.pre

\* A machine with transitions has refused a transition for its event alone.
C21_Witness ==
    /\ call.op = "AddTransition"
    /\ call.arg = "eventMissing"
    /\ call.err.Type = "EventNotFound"
    /\ {"red", "green"} \subseteq sm.states
    /\ sm.transitions # EmptyMap

(***************************************************************************)
(* The context store on its own: a caller that sets and reads entries,     *)
(* takes the map GetAll returns and writes into that map.                  *)
(***************************************************************************)

ContextValues == {"1", "2"}

\* What the caller finds in the map it got from GetAll.
Returned == IF snap.map = "data" THEN sm.context ELSE snap.entries

ContextCalled(op, arg, c, s) ==
    /\ sm' = [sm EXCEPT !.context = c]
    /\ snap' = s
    /\ call' = Called(op, arg, sm, Return(sm', NilResult, NilError, <<>>))
    /\ UNCHANGED <<setup, blocked, path, started, answer, builder>>
    /\ UNCHANGED <<loader, es, chans, fsms, procs, caller, hist>>
    /\ UNCHANGED concVars

ContextSet == \E k \in ContextKeys, v \in ContextValues : ContextCalled("Set", k, Set(sm.context, k, v), snap)

ContextGet == \E k \in ContextKeys : ContextCalled("Get", Get(sm.context, k), sm.context, snap)

ContextGetAll == ContextCalled("GetAll", "", sm.context, GetAll(sm.context))

\* returned[k] = v and delete(returned, k) on the map GetAll returned.
MapStore ==
    /\ snap.map # "none"
    /\ \E k \in ContextKeys, v \in ContextValues :
          IF snap.map = "data"
          THEN ContextCalled("MapStore", k, [x \in DOMAIN sm.context \cup {k} |-> IF x = k THEN v ELSE sm.context[x]], snap)
          ELSE ContextCalled("MapStore", k, sm.context, [snap EXCEPT !.entries = [x \in DOMAIN @ \cup {k} |-> IF x = k THEN v ELSE @[x]]])

MapDelete ==
    /\ snap.map # "none"
    /\ \E k \in ContextKeys :
          IF snap.map = "data"
          THEN ContextCalled("MapDelete", k, [x \in DOMAIN sm.context \ {k} |-> sm.context[x]], snap)
          ELSE ContextCalled("MapDelete", k, sm.context, [snap EXCEPT !.entries = [x \in DOMAIN @ \ {k} |-> @[x]]])

InitContext ==
    /\ sm = [NewStateMachine EXCEPT !.context = NewContext]
    /\ setup = [def |-> 1, pc |-> 1]
    /\ call = [op |-> "NewContext", arg |-> "", pre |-> NewStateMachine, wasBlocked |-> "", result |-> NilResult, err |-> NilError, trace |-> <<>>]
    /\ blocked = ""
    /\ path = <<>>
    /\ started = NoState
    /\ answer = NoAnswer
    /\ builder = NoBuilder
    /\ ConcIdle
    /\ AuxIdle

NextContext ==
    \/ ContextSet
    \/ ContextGet
    \/ ContextGetAll
    \/ MapStore
    \/ MapDelete

SpecContext == InitContext /\ [][NextContext]_vars

\* C22: GetAll returns a detached snapshot.  The map it returns holds the
\* entries the store has at the call; a Set on the store afterwards leaves
\* what the caller finds in that map as it was; and storing or deleting an
\* entry in that map leaves the store as it was, so that a later Get of any
\* key and a later GetAll return what they would have returned before.
C22_DetachedSnapshot ==
    [][/\ call'.op = "GetAll" => Returned' = sm.context
       /\ call'.op = "Set" /\ snap.map # "none" => Returned' = Returned
       /\ call'.op \in {"MapStore", "MapDelete"} =>
             /\ \A k \in ContextKeys : Get(sm'.context, k) = Get(sm.context, k)
             /\ sm'.context = sm.context]_vars

\* The caller holds a map from GetAll that differs from the store both by
\* a later Set on the store and by a write into the map.
C22_Witness ==
    /\ snap.map # "none"
    /\ call.op = "Set"
    /\ \E k \in DOMAIN sm.context : k \notin DOMAIN Returned
    /\ \E k \in DOMAIN Returned : k \notin DOMAIN sm.context \/ Returned[k] # sm.context[k]

(***************************************************************************)
(* The event bus (streaming.go): an EventStreamer, the channels it makes,  *)
(* the goroutines it starts and one thread that calls it.                  *)
(***************************************************************************)

MachineIDs == {"M1", "M2"}

\* The capacity of a machine's queue and of a subscriber's channel.  The
\* code makes both with room for 100 messages (streaming.go 75, 90); the
\* model keeps them small so that a full channel is within reach.
QueueCap == 2

SubscriberCap == 1

\* A map[string]interface{} that may be nil.
NilMap == [isNil |-> TRUE, entries |-> EmptyMap]

MapOf(entries) == [isNil |-> FALSE, entries |-> entries]

\* An EventMessage (Timestamp and Destination left out).  ID 0 stands for
\* the empty string, an ID n > 0 for the n-th string generateEventID made.
EventMessage(id, machineID, event, context, source) ==
    [ID |-> id, MachineID |-> machineID, Event |-> event, Context |-> context, Source |-> source]

\* The zero value of EventMessage, which a receive from a closed channel
\* yields.
ZeroMessage == EventMessage(0, "", "", NilMap, "")

\* make(chan EventMessage, cap)
Chan(cap) == [buf |-> <<>>, closed |-> FALSE, cap |-> cap]

\* done: the streamer's context is cancelled (es.ctx.Done() is closed).
NewEventStreamer == [machines |-> EmptyMap, subscribers |-> EmptyMap, publishers |-> EmptyMap, done |-> FALSE]

\* es.subscribers[machineID]: the nil slice for a key the map does not have.
Subscribers(e, machineID) == IF machineID \in DOMAIN e.subscribers THEN e.subscribers[machineID] ELSE <<>>

\* A goroutine running processEvents(machineID), before its first line.
ProcessEvents(machineID) ==
    [func |-> "processEvents", pc |-> "start", machineID |-> machineID, publisher |-> 0, machine |-> "",
     subscribers |-> <<>>, subscriber |-> 0, msg |-> ZeroMessage, before |-> EmptyMap]

\* A goroutine running handleSubscription(subscriber, handler), at its select.
HandleSubscription(subscriber) ==
    [func |-> "handleSubscription", pc |-> "select", machineID |-> "", publisher |-> 0, machine |-> "",
     subscribers |-> <<>>, subscriber |-> subscriber, msg |-> ZeroMessage, before |-> EmptyMap]

\* The bus as the operations below take and return it.
World == [es |-> es, chans |-> chans, procs |-> procs]

RegisterMachine(w, id, machine) ==
    [es    |-> [w.es EXCEPT !.machines = [k \in DOMAIN @ \cup {id} |-> IF k = id THEN machine ELSE @[k]],
                            !.publishers = [k \in DOMAIN @ \cup {id} |-> IF k = id THEN Len(w.chans) + 1 ELSE @[k]]],
     chans |-> Append(w.chans, Chan(QueueCap)),
     procs |-> Append(w.procs, ProcessEvents(id))]

Subscribe(w, machineID) ==
    IF machineID \notin DOMAIN w.es.machines THEN [w |-> w, err |-> "not registered"]
    ELSE [w   |-> [es    |-> [w.es EXCEPT !.subscribers = [k \in DOMAIN @ \cup {machineID} |->
                                                            IF k = machineID THEN Append(Subscribers(w.es, machineID), Len(w.chans) + 1) ELSE @[k]]],
                   chans |-> Append(w.chans, Chan(SubscriberCap)),
                   procs |-> Append(w.procs, HandleSubscription(Len(w.chans) + 1))],
          err |-> "nil"]

\* PublishEvent up to the outcome of its select: the message is in the
\* queue ("sent"), the queue is full and the call waits ("full"), the
\* queue is closed and the send panics ("panic"), or the machine has no
\* queue ("not found").  id is what generateEventID returns.
PublishEvent(w, msg, id) ==
    LET m == IF msg.ID = 0 THEN [msg EXCEPT !.ID = id] ELSE msg
    IN IF msg.MachineID \in DOMAIN w.es.publishers
       THEN LET publisher == w.es.publishers[msg.MachineID]
            IN IF w.chans[publisher].closed THEN [outcome |-> "panic", msg |-> m, chans |-> w.chans]
               ELSE IF Len(w.chans[publisher].buf) < w.chans[publisher].cap
                    THEN [outcome |-> "sent", msg |-> m, chans |-> [w.chans EXCEPT ![publisher].buf = Append(@, m)]]
                    ELSE [outcome |-> "full", msg |-> m, chans |-> w.chans]
       ELSE [outcome |-> "not found", msg |-> m, chans |-> w.chans]

\* The orders in which a range over a map with these keys may visit them.
Orders(keys) == {order \in [1..Cardinality(keys) -> keys] : \A i, j \in DOMAIN order : order[i] = order[j] => i = j}

\* BroadcastEvent reporting success whatever the publishes returned.
BroadcastResult_Nil(errors) == "nil"

\* What BroadcastEvent returns after the publishes, errors of which failed.
BroadcastResult(errors) == IF errors > 0 THEN "broadcast failed" ELSE "nil"

\* Close that leaves the streamer's context alone.
Cancel_Nothing(e) == e

\* es.cancel()
Cancel(e) == [e EXCEPT !.done = TRUE]

\* The rest of Close: close() on every queue and every subscriber channel,
\* which panics on a channel that is closed already.
CloseChannels(w) ==
    LET made == {w.es.publishers[k] : k \in DOMAIN w.es.publishers}
                   \cup UNION {Range(w.es.subscribers[k]) : k \in DOMAIN w.es.subscribers}
    IN [panic |-> \E c \in made : w.chans[c].closed,
        chans |-> [c \in DOMAIN w.chans |-> IF c \in made THEN [w.chans[c] EXCEPT !.closed = TRUE] ELSE w.chans[c]]]

\* The first lines of processEvents: the queue, the machine and the
\* subscriber list of the machine id, as they are at that moment.
ProcessEventsStart(w, g) ==
    [w.procs[g] EXCEPT !.pc = "select",
                       !.publisher = w.es.publishers[w.procs[g].machineID],
                       !.machine = w.es.machines[w.procs[g].machineID],
                       !.subscribers = Subscribers(w.es, w.procs[g].machineID)]

\* A receive that takes the message put in last.
Receive_Last(ch) ==
    IF ch.buf = <<>> THEN [msg |-> ZeroMessage, ch |-> ch]
    ELSE [msg |-> ch.buf[Len(ch.buf)], ch |-> [ch EXCEPT !.buf = SubSeq(@, 1, Len(@) - 1)]]

\* A receive that can proceed: the oldest message of the buffer or, from a
\* closed and empty channel, the zero value.
Receive(ch) ==
    IF ch.buf = <<>> THEN [msg |-> ZeroMessage, ch |-> ch]
    ELSE [msg |-> Head(ch.buf), ch |-> [ch EXCEPT !.buf = Tail(@)]]

CanReceive(ch) == ch.buf # <<>> \/ ch.closed

\* processEventOnMachine without the merge.
Merge_Nothing(m, msg) == m

\* processEventOnMachine up to its SendEvent: every entry of msg.Context is
\* Set in the machine's context, unless msg.Context is nil.
Merge(m, msg) ==
    IF msg.Context.isNil THEN m
    ELSE [m EXCEPT !.context = [k \in DOMAIN @ \cup DOMAIN msg.Context.entries |->
                                   IF k \in DOMAIN msg.Context.entries THEN msg.Context.entries[k] ELSE @[k]]]

\* The sends of the notify loop giving up at the first full subscriber.
RECURSIVE Deliver_UntilFull(_, _, _)
Deliver_UntilFull(chs, subscribers, msg) ==
    IF subscribers = <<>> THEN [panic |-> FALSE, chans |-> chs]
    ELSE LET subscriber == Head(subscribers)
         IN IF chs[subscriber].closed THEN [panic |-> TRUE, chans |-> chs]
            ELSE IF Len(chs[subscriber].buf) < chs[subscriber].cap
                 THEN Deliver_UntilFull([chs EXCEPT ![subscriber].buf = Append(@, msg)], Tail(subscribers), msg)
                 ELSE [panic |-> FALSE, chans |-> chs]

\* The notify loop of processEvents: a send to every subscriber of the list
\* in turn, skipped when the subscriber's buffer is full; a send on a
\* closed channel panics.
RECURSIVE Deliver(_, _, _)
Deliver(chs, subscribers, msg) ==
    IF subscribers = <<>> THEN [panic |-> FALSE, chans |-> chs]
    ELSE LET subscriber == Head(subscribers)
         IN IF chs[subscriber].closed THEN [panic |-> TRUE, chans |-> chs]
            ELSE IF Len(chs[subscriber].buf) < chs[subscriber].cap
                 THEN Deliver([chs EXCEPT ![subscriber].buf = Append(@, msg)], Tail(subscribers), msg)
                 ELSE Deliver(chs, Tail(subscribers), msg)

(***************************************************************************)
(* The caller of the bus and what an observer records                      *)
(***************************************************************************)

RegisterCall(id) == [op |-> "RegisterMachine", id |-> id, context |-> NilMap]

SubscribeCall(id) == [op |-> "Subscribe", id |-> id, context |-> NilMap]

PublishCall(id, context) == [op |-> "PublishEvent", id |-> id, context |-> context]

BroadcastCall(context) == [op |-> "BroadcastEvent", id |-> "", context |-> context]

CloseCall == [op |-> "Close", id |-> "", context |-> NilMap]

\* n PublishEvent calls for one machine, with {token: 1} and with no
\* context in turn.
Publishes(id, n) == [i \in 1..n |-> PublishCall(id, IF i % 2 = 1 THEN MapOf([token |-> "1"]) ELSE NilMap)]

\* Two machines, a subscriber to the first, one broadcast, one more message
\* for the second machine.
FanOut ==
    << RegisterCall("M1"), RegisterCall("M2"), SubscribeCall("M1"),
       BroadcastCall(MapOf([token |-> "2"])), PublishCall("M2", NilMap), CloseCall >>

\* Two subscribers to one machine and more messages than the buffer of a
\* subscriber holds.
SlowSubscriber ==
    << RegisterCall("M1"), SubscribeCall("M1"), SubscribeCall("M1") >> \o Publishes("M1", SubscriberCap + 2) \o << CloseCall >>

\* More messages for one machine than its queue holds, then a broadcast.
Flood ==
    << RegisterCall("M2"), RegisterCall("M1") >> \o Publishes("M2", QueueCap + 1) \o << BroadcastCall(MapOf([token |-> "2"])) >>

\* Calls for a machine that is not registered yet, and calls after Close.
Misuse ==
    << PublishCall("M1", NilMap), SubscribeCall("M1"), BroadcastCall(NilMap), RegisterCall("M1"), SubscribeCall("M1"),
       PublishCall("M1", MapOf([token |-> "1"])), CloseCall, RegisterCall("M2"), PublishCall("M1", NilMap), CloseCall >>

Scenarios == << FanOut, SlowSubscriber, Flood, Misuse >>

\* The caller between two calls.  It runs the scenario script, of which it
\* has made n calls.
IdleCaller == [pc |-> "idle", op |-> "", msg |-> ZeroMessage, todo |-> <<>>, errors |-> 0, script |-> 1, n |-> 0, ret |-> "none"]

\* The call the caller makes next.
NextBusCall == Scenarios[caller.script][caller.n + 1]

\* clock       the event IDs generated so far
\* accepted    per machine id, the messages PublishEvent returned nil for
\* refused     the IDs of the messages PublishEvent returned an error for
\* applied     per machine id, the SendEvent calls of its processor for
\*             published messages: the message, the machine's context
\*             before the merge and at the call, the state and the error
\* notified    per machine id, the notify loops run for published messages
\* subscribed  per subscriber channel, the machine id, how many messages
\*             were applied when it was attached and the messages its
\*             handler was called with
\* broadcast   the last BroadcastEvent: the ids registered at the call, the
\*             message made for each id, and what the call returned
\* spurious    a machine or a handler was handed a zero-value message
\* closeCalled Close has cancelled the streamer's context
NoHistory ==
    [clock |-> 0,
     accepted |-> [id \in MachineIDs |-> <<>>],
     refused |-> {},
     applied |-> [id \in MachineIDs |-> <<>>],
     notified |-> [id \in MachineIDs |-> <<>>],
     subscribed |-> EmptyMap,
     broadcast |-> [ids |-> {}, event |-> "", context |-> NilMap, msgs |-> EmptyMap, returned |-> "none"],
     spurious |-> FALSE,
     closeCalled |-> FALSE]

BusLive == ~crashed

\* One step of the bus: the streamer, the machines, the caller and the
\* record after it, and whether it was a panic.
Stepped(w, f, c, h, panic) ==
    /\ es' = w.es
    /\ chans' = w.chans
    /\ procs' = w.procs
    /\ fsms' = f
    /\ caller' = c
    /\ hist' = h
    /\ crashed' = panic
    /\ UNCHANGED <<sm, setup, call, blocked, path, started, answer, builder, snap, loader>>
    /\ UNCHANGED <<thr, mu, ctxBusy, lastTo, chained, commits, successes, calls>>

CanCall(op) == BusLive /\ caller.pc = "idle" /\ caller.n < Len(Scenarios[caller.script]) /\ NextBusCall.op = op

CallRegisterMachine ==
    /\ CanCall("RegisterMachine")
    /\ \E id \in {NextBusCall.id} :
          /\ Stepped(RegisterMachine(World, id, id), fsms,
                     [caller EXCEPT !.n = @ + 1, !.op = "RegisterMachine", !.ret = "nil"], hist, FALSE)

CallSubscribe ==
    /\ CanCall("Subscribe")
    /\ \E id \in {NextBusCall.id} :
          LET r == Subscribe(World, id)
          IN Stepped(r.w, fsms, [caller EXCEPT !.n = @ + 1, !.op = "Subscribe", !.ret = r.err],
                     IF r.err # "nil" THEN hist
                     ELSE [hist EXCEPT !.subscribed = [c \in DOMAIN @ \cup {Len(chans) + 1} |->
                                                          IF c \in DOMAIN @ THEN @[c]
                                                          ELSE [machineID |-> id, since |-> Len(hist.applied[id]), handled |-> <<>>]]],
                     FALSE)

\* The caller after a publish that returned err ("nil" or an error): back
\* in BroadcastEvent's loop, or out of PublishEvent.
AfterPublish(c, err) ==
    IF c.op = "BroadcastEvent"
    THEN [c EXCEPT !.pc = "broadcast", !.todo = Tail(@), !.errors = IF err = "nil" THEN @ ELSE @ + 1, !.msg = ZeroMessage]
    ELSE [c EXCEPT !.pc = "idle", !.ret = err, !.msg = ZeroMessage]

\* The caller c calls PublishEvent(msg), or goes on with a call that waits.
Publishing(c, msg) ==
    LET r == PublishEvent(World, msg, hist.clock + 1)
        h == [hist EXCEPT !.clock = IF r.msg.ID > @ THEN r.msg.ID ELSE @,
                          !.broadcast.msgs = IF c.op = "BroadcastEvent"
                                             THEN [k \in DOMAIN @ \cup {msg.MachineID} |-> IF k = msg.MachineID THEN r.msg.ID ELSE @[k]]
                                             ELSE @]
    IN CASE r.outcome = "sent" ->
              Stepped([World EXCEPT !.chans = r.chans], fsms, AfterPublish(c, "nil"),
                      [h EXCEPT !.accepted[msg.MachineID] = Append(@, r.msg)], FALSE)
         [] r.outcome = "full" ->
              Stepped(World, fsms, [c EXCEPT !.pc = "blocked", !.msg = r.msg], h, FALSE)
         [] r.outcome = "not found" ->
              Stepped(World, fsms, AfterPublish(c, "not found"), [h EXCEPT !.refused = @ \cup {r.msg.ID}], FALSE)
         [] r.outcome = "panic" ->
              Stepped(World, fsms, c, h, TRUE)

CallPublishEvent ==
    /\ CanCall("PublishEvent")
    /\ \E id \in {NextBusCall.id}, context \in {NextBusCall.context} :
          Publishing([caller EXCEPT !.n = @ + 1, !.op = "PublishEvent"], EventMessage(0, id, "go", context, ""))

\* The queue has room now: the send of the waiting call goes through.
PublishUnblock ==
    /\ BusLive
    /\ caller.pc = "blocked"
    /\ PublishEvent(World, caller.msg, 0).outcome # "full"
    /\ Publishing(caller, caller.msg)

\* The queue has been full for five seconds.
PublishTimeout ==
    /\ BusLive
    /\ caller.pc = "blocked"
    /\ PublishEvent(World, caller.msg, 0).outcome = "full"
    /\ Stepped(World, fsms, AfterPublish(caller, "timeout"), [hist EXCEPT !.refused = @ \cup {caller.msg.ID}], FALSE)

\* BroadcastEvent up to its loop: the ids of es.machines in some order.
CallBroadcastEvent ==
    /\ CanCall("BroadcastEvent")
    /\ \E context \in {NextBusCall.context}, order \in Orders(DOMAIN es.machines) :
          Stepped(World, fsms,
                  [caller EXCEPT !.n = @ + 1, !.op = "BroadcastEvent", !.pc = "broadcast", !.todo = order, !.errors = 0],
                  [hist EXCEPT !.broadcast = [ids |-> DOMAIN es.machines, event |-> "go", context |-> context,
                                              msgs |-> EmptyMap, returned |-> "none"]],
                  FALSE)

BroadcastPublish ==
    /\ BusLive
    /\ caller.pc = "broadcast"
    /\ caller.todo # <<>>
    /\ Publishing(caller, EventMessage(hist.clock + 1, Head(caller.todo), hist.broadcast.event, hist.broadcast.context, "broadcast"))

BroadcastReturn ==
    /\ BusLive
    /\ caller.pc = "broadcast"
    /\ caller.todo = <<>>
    /\ Stepped(World, fsms, [caller EXCEPT !.pc = "idle", !.ret = BroadcastResult(caller.errors)],
               [hist EXCEPT !.broadcast.returned = BroadcastResult(caller.errors)], FALSE)

\* Close up to its Lock.
CallClose ==
    /\ CanCall("Close")
    /\ Stepped([World EXCEPT !.es = Cancel(es)], fsms, [caller EXCEPT !.n = @ + 1, !.op = "Close", !.pc = "closing"],
               [hist EXCEPT !.closeCalled = TRUE], FALSE)

CloseReturn ==
    /\ BusLive
    /\ caller.pc = "closing"
    /\ LET r == CloseChannels(World)
       IN Stepped([World EXCEPT !.chans = r.chans], fsms, [caller EXCEPT !.pc = "idle", !.ret = "nil"], hist, r.panic)

(***************************************************************************)
(* The goroutines of the bus                                               *)
(***************************************************************************)

Running(g, func, pc) == BusLive /\ g \in DOMAIN procs /\ procs[g].func = func /\ procs[g].pc = pc

ProcessorStart(g) ==
    /\ Running(g, "processEvents", "start")
    /\ Stepped([World EXCEPT !.procs[g] = ProcessEventsStart(World, g)], fsms, caller, hist, FALSE)

\* case <-es.ctx.Done(): return
ProcessorDone(g) ==
    /\ Running(g, "processEvents", "select")
    /\ es.done
    /\ Stepped([World EXCEPT !.procs[g].pc = "returned"], fsms, caller, hist, FALSE)

\* case msg := <-publisher, and processEventOnMachine up to its SendEvent.
ProcessorReceive(g) ==
    /\ Running(g, "processEvents", "select")
    /\ CanReceive(chans[procs[g].publisher])
    /\ LET r == Receive(chans[procs[g].publisher])
           machine == procs[g].machine
       IN Stepped([World EXCEPT !.chans[procs[g].publisher] = r.ch,
                                !.procs[g] = [@ EXCEPT !.pc = "send", !.msg = r.msg, !.before = fsms[machine].context]],
                  [fsms EXCEPT ![machine] = Merge(@, r.msg)], caller, hist, FALSE)

\* machine.SendEvent(Event(msg.Event)), whose result is dropped.
ProcessorSend(g) ==
    /\ Running(g, "processEvents", "send")
    /\ LET machine == procs[g].machine
           msg == procs[g].msg
           r == SendEvent(fsms[machine], msg.Event)
       IN Stepped([World EXCEPT !.procs[g].pc = "notify"], [fsms EXCEPT ![machine] = r.sm], caller,
                  IF msg.ID = 0 THEN [hist EXCEPT !.spurious = TRUE]
                  ELSE [hist EXCEPT !.applied[procs[g].machineID] =
                           Append(@, [msg |-> msg, before |-> procs[g].before, context |-> fsms[machine].context,
                                      from |-> fsms[machine].currentState, err |-> r.err.Type])],
                  FALSE)

\* The notify loop.
ProcessorNotify(g) ==
    /\ Running(g, "processEvents", "notify")
    /\ LET msg == procs[g].msg
           r == Deliver(chans, procs[g].subscribers, msg)
           full == {c \in Range(procs[g].subscribers) : Len(chans[c].buf) = chans[c].cap}
           got == {c \in Range(procs[g].subscribers) : r.chans[c].buf = Append(chans[c].buf, msg)}
       IN Stepped([World EXCEPT !.chans = r.chans, !.procs[g] = [@ EXCEPT !.pc = "select", !.msg = ZeroMessage, !.before = EmptyMap]],
                  fsms, caller,
                  IF msg.ID = 0 \/ r.panic THEN hist
                  ELSE [hist EXCEPT !.notified[procs[g].machineID] =
                           Append(@, [msg |-> msg.ID, subscribers |-> procs[g].subscribers, full |-> full, got |-> got])],
                  r.panic)

ConsumerDone(g) ==
    /\ Running(g, "handleSubscription", "select")
    /\ es.done
    /\ Stepped([World EXCEPT !.procs[g].pc = "returned"], fsms, caller, hist, FALSE)

\* case msg := <-subscriber, and the call of the handler.
ConsumerReceive(g) ==
    /\ Running(g, "handleSubscription", "select")
    /\ CanReceive(chans[procs[g].subscriber])
    /\ LET r == Receive(chans[procs[g].subscriber])
       IN Stepped([World EXCEPT !.chans[procs[g].subscriber] = r.ch], fsms, caller,
                  IF r.msg.ID = 0 THEN [hist EXCEPT !.spurious = TRUE]
                  ELSE [hist EXCEPT !.subscribed[procs[g].subscriber].handled = Append(@, r.msg)],
                  FALSE)

\* Two machines are handed to the bus: the guarded gate and the plain
\* machine, both started in red.
InitBus ==
    /\ sm = NewStateMachine
    /\ setup = [def |-> 1, pc |-> 1]
    /\ call = [op |-> "NewEventStreamer", arg |-> "", pre |-> NewStateMachine, wasBlocked |-> "", result |-> NilResult, err |-> NilError, trace |-> <<>>]
    /\ blocked = ""
    /\ path = <<>>
    /\ started = NoState
    /\ answer = NoAnswer
    /\ builder = NoBuilder
    /\ snap = NoSnapshot
    /\ loader = NoLoader
    /\ ConcIdle
    /\ es = NewEventStreamer
    /\ chans = <<>>
    /\ fsms = [M1 |-> Start(Configure(NewStateMachine, Gate), "red").sm,
               M2 |-> Start(Configure(NewStateMachine, Plain), "red").sm]
    /\ procs = <<>>
    /\ caller \in {[IdleCaller EXCEPT !.script = s] : s \in DOMAIN Scenarios}
    /\ hist = NoHistory

NextBus ==
    \/ CallRegisterMachine
    \/ CallSubscribe
    \/ CallPublishEvent
    \/ PublishUnblock
    \/ PublishTimeout
    \/ CallBroadcastEvent
    \/ BroadcastPublish
    \/ BroadcastReturn
    \/ CallClose
    \/ CloseReturn
    \/ \E g \in DOMAIN procs :
          \/ ProcessorStart(g)
          \/ ProcessorDone(g)
          \/ ProcessorReceive(g)
          \/ ProcessorSend(g)
          \/ ProcessorNotify(g)
          \/ ConsumerDone(g)
          \/ ConsumerReceive(g)

SpecBus == InitBus /\ [][NextBus]_vars

\* The goroutines there may be: one for every RegisterMachine and Subscribe
\* call of a scenario.
Spawns(script) == Cardinality({i \in DOMAIN script : script[i].op \in {"RegisterMachine", "Subscribe"}})

Goroutines == 1..(CHOOSE n \in 0..20 : /\ \A s \in DOMAIN Scenarios : Spawns(Scenarios[s]) <= n
                                      /\ \E s \in DOMAIN Scenarios : Spawns(Scenarios[s]) = n)

\* A goroutine takes the es.ctx.Done() case of its select and returns.
GoroutineDone(g) == ProcessorDone(g) \/ ConsumerDone(g)

\* A processor goroutine takes a step other than returning.
ProcessorStep(g) == ProcessorStart(g) \/ ProcessorReceive(g) \/ ProcessorSend(g) \/ ProcessorNotify(g)

\* Scheduling: a goroutine that can take a step takes it in the end, and a
\* select that finds es.ctx.Done() ready again and again takes that case in
\* the end (Go picks among the ready cases at random).  Nothing is assumed
\* of the handlers' side: a subscriber may never take a message.
SpecBusFair ==
    /\ InitBus
    /\ [][NextBus]_vars
    /\ \A g \in Goroutines :
          /\ WF_vars(ProcessorStep(g))
          /\ SF_vars(GoroutineDone(g))

(***************************************************************************)
(* Properties of the bus                                                   *)
(***************************************************************************)

IDs(msgs) == [i \in DOMAIN msgs |-> msgs[i].ID]

\* The messages a machine's processor has called SendEvent for, the one it
\* has received and not yet called SendEvent for, and the ones in the queue.
AppliedIDs(id) == [i \in DOMAIN hist.applied[id] |-> hist.applied[id][i].msg.ID]

InFlight(id) ==
    IF \E g \in DOMAIN procs : procs[g].machineID = id /\ procs[g].pc = "send" /\ procs[g].msg.ID # 0
    THEN <<procs[CHOOSE g \in DOMAIN procs : procs[g].machineID = id /\ procs[g].pc = "send" /\ procs[g].msg.ID # 0].msg.ID>>
    ELSE <<>>

QueuedIDs(id) == IF id \in DOMAIN es.publishers THEN IDs(chans[es.publishers[id]].buf) ELSE <<>>

IsPrefix(s, t) == Len(s) <= Len(t) /\ \A i \in DOMAIN s : s[i] = t[i]

Occurrences(s, x) == Cardinality({i \in DOMAIN s : s[i] = x})

\* The bus is closed or a panic has ended the process.
Ended == hist.closeCalled \/ crashed

\* C24: a handler attached with Subscribe(M, handler) after
\* RegisterMachine(M) is handed every message the bus processes for M from
\* then on, once each and in that order, as long as none was dropped at its
\* full buffer (the messages handed over are those its handler was called
\* with and those waiting in its channel); every one of them is a message
\* for M.  Stated for a bus that Close was not called on.
C24_SubscriberGetsEvery ==
    ~hist.closeCalled =>
        \A c \in DOMAIN hist.subscribed :
            LET s == hist.subscribed[c]
                processed == hist.notified[s.machineID]
                since == {i \in DOMAIN processed : i > s.since}
                got == s.handled \o chans[c].buf
            IN /\ \A i \in DOMAIN got : got[i].MachineID = s.machineID
               /\ (\A i \in since : c \notin processed[i].full) =>
                     /\ Len(got) = Cardinality(since)
                     /\ \A i \in DOMAIN got : got[i].ID = processed[s.since + i].msg

\* C25, the part on states: BroadcastEvent makes messages for machines
\* registered at the call only and, once it has returned, one for each of
\* them, each handed to PublishEvent once; it returns an error exactly if
\* one of these publishes failed; a message of the broadcast is applied to
\* its machine at most once and to no other machine, by a SendEvent of the
\* broadcast's event on a context that holds the broadcast's entries.
BroadcastInvariant ==
    LET b == hist.broadcast
    IN /\ DOMAIN b.msgs \subseteq b.ids
       /\ \A id, other \in DOMAIN b.msgs : b.msgs[id] = b.msgs[other] => id = other
       /\ b.returned # "none" =>
             /\ DOMAIN b.msgs = b.ids
             /\ b.returned = "broadcast failed" <=> \E id \in b.ids : b.msgs[id] \in hist.refused
             /\ b.returned \in {"nil", "broadcast failed"}
             /\ \A id \in b.ids : b.msgs[id] \in hist.refused <=> Occurrences(IDs(hist.accepted[id]), b.msgs[id]) = 0
       /\ \A id \in DOMAIN b.msgs, m \in MachineIDs :
             /\ Occurrences(IDs(hist.accepted[m]), b.msgs[id]) <= (IF m = id THEN 1 ELSE 0)
             /\ Occurrences(AppliedIDs(m), b.msgs[id]) <= (IF m = id THEN 1 ELSE 0)
             /\ \A i \in DOMAIN hist.applied[m] :
                   hist.applied[m][i].msg.ID = b.msgs[id] =>
                      /\ hist.applied[m][i].msg.Event = b.event
                      /\ \A k \in DOMAIN b.context.entries : Get(hist.applied[m][i].context, k) = b.context.entries[k]

\* C25: BroadcastEvent publishes one message per machine registered at the
\* call; every such machine whose publish succeeded has SendEvent of the
\* event invoked for it, once, with the entries merged before (eventually,
\* on a bus that is not closed); and BroadcastEvent returns an error
\* exactly if a publish failed.
C25_Broadcast ==
    /\ []BroadcastInvariant
    /\ \A id \in MachineIDs :
          (id \in DOMAIN hist.broadcast.msgs /\ Occurrences(IDs(hist.accepted[id]), hist.broadcast.msgs[id]) = 1)
             ~> \/ (id \in DOMAIN hist.broadcast.msgs /\ Occurrences(AppliedIDs(id), hist.broadcast.msgs[id]) = 1)
                \/ Ended

\* A broadcast to two machines has returned an error: one machine's queue
\* refused the message, the other machine has had it applied.
C25_Witness ==
    /\ hist.broadcast.returned = "broadcast failed"
    /\ hist.broadcast.ids = MachineIDs
    /\ \E id \in MachineIDs :
          /\ hist.broadcast.msgs[id] \notin hist.refused
          /\ Occurrences(AppliedIDs(id), hist.broadcast.msgs[id]) = 1

\* C26, the part on states: what a machine's processor has applied and is
\* about to apply is the front of what was accepted for the machine id, in
\* the order of the enqueues, and on a bus that is not closed the rest is
\* in the queue: nothing is lost, applied twice or out of order.
FifoInvariant ==
    \A id \in MachineIDs :
        /\ IsPrefix(AppliedIDs(id) \o InFlight(id), IDs(hist.accepted[id]))
        /\ ~hist.closeCalled => AppliedIDs(id) \o InFlight(id) \o QueuedIDs(id) = IDs(hist.accepted[id])

\* C26: the messages PublishEvent returned success for, for one machine
\* id, are applied in the order of their enqueues, each once, as long as
\* the bus is not closed: the applied messages are always the front of the
\* accepted ones, and again and again the processor has applied all that
\* were accepted.
C26_Fifo ==
    /\ []FifoInvariant
    /\ \A id \in MachineIDs : []<>(Len(hist.applied[id]) = Len(hist.accepted[id]) \/ Ended)

\* Two messages of one machine have been applied while a third waits in the
\* queue, on a bus that is not closed.
C26_Witness ==
    \E id \in MachineIDs :
        /\ Len(hist.applied[id]) >= 2
        /\ Len(QueuedIDs(id)) >= 1
        /\ ~hist.closeCalled

\* C27: when the bus processes a message, every entry of the message's
\* context is in the machine's context at the call of SendEvent, with the
\* message's value, and the other entries are as they were before (a nil
\* context changes nothing); so a transition guarded by ContextHasKey(token)
\* is not refused by its guard when the message brings a token.
C27_MergeBeforeSend ==
    \A id \in MachineIDs : \A i \in DOMAIN hist.applied[id] :
        LET a == hist.applied[id][i]
            entries == a.msg.Context.entries
            key == transitionKey(a.from, a.msg.Event)
        IN /\ a.msg.Context.isNil => a.context = a.before
           /\ ~a.msg.Context.isNil =>
                 /\ DOMAIN a.context = DOMAIN a.before \cup DOMAIN entries
                 /\ \A k \in DOMAIN entries : a.context[k] = entries[k]
                 /\ \A k \in DOMAIN a.before \ DOMAIN entries : a.context[k] = a.before[k]
           /\ (/\ key \in DOMAIN fsms[id].transitions
               /\ fsms[id].transitions[key].Condition = "ContextHasKey"
               /\ "token" \in DOMAIN entries) => a.err # "ConditionNotMet"

\* A message has overwritten the token and left the other entry, and a
\* guarded transition has passed on the token its message brought.
C27_Witness ==
    /\ \E id \in MachineIDs : \E i \in DOMAIN hist.applied[id] :
          LET a == hist.applied[id][i]
          IN /\ Get(a.before, "token") = "1"
             /\ Get(a.context, "token") = "2"
             /\ Get(a.before, "done") = "1"
             /\ Get(a.context, "done") = "1"
    /\ \E i \in DOMAIN hist.applied["M1"] :
          LET a == hist.applied["M1"][i]
          IN a.from = "red" /\ "token" \notin DOMAIN a.before /\ a.err = "nil"

\* C28, the part on states: in every notify loop each subscriber of the
\* processor's list either had a full buffer, and then it alone missed the
\* message, or has the message in its channel.
DropInvariant ==
    \A id \in MachineIDs : \A i \in DOMAIN hist.notified[id] :
        LET n == hist.notified[id][i]
        IN /\ n.got \cap n.full = {}
           /\ n.got \cup n.full = Range(n.subscribers)

\* C28: a delivery to a subscriber whose buffer is full is dropped without
\* blocking.  The processor leaves every notify loop, and it applies and
\* notifies every message accepted for its machine (on a bus that is not
\* closed) whether or not a subscriber ever takes a message from its
\* channel, so that a full queue that makes a PublishEvent caller wait is
\* drained whatever the subscribers do; the other subscribers get the
\* message.
C28_DropWithoutBlocking ==
    /\ []DropInvariant
    /\ \A g \in Goroutines : []<>(g \notin DOMAIN procs \/ procs[g].pc # "notify" \/ crashed)
    /\ \A id \in MachineIDs : []<>(Len(hist.notified[id]) = Len(hist.accepted[id]) \/ Ended)

\* A message was dropped at one subscriber's full buffer and delivered to
\* the other subscriber, and the processor has applied a later message.
C28_Witness ==
    \E id \in MachineIDs : \E i \in DOMAIN hist.notified[id] :
        /\ hist.notified[id][i].full # {}
        /\ hist.notified[id][i].got # {}
        /\ Len(hist.applied[id]) > i

\* C29: after Close() every machine processor and every subscriber consumer
\* terminates in the end: it has returned, or a panic has ended the process
\* and every goroutine with it.
C29_CloseTerminates ==
    hist.closeCalled ~> (crashed \/ \A g \in DOMAIN procs : procs[g].pc = "returned")

\* After Close two processors and a consumer have returned, one of them
\* leaving messages in its queue.
C29_Witness ==
    /\ hist.closeCalled
    /\ ~crashed
    /\ Len(procs) >= 3
    /\ \A g \in DOMAIN procs : procs[g].pc = "returned"
    /\ \E g \in DOMAIN procs : procs[g].func = "processEvents" /\ chans[procs[g].publisher].buf # <<>>

(***************************************************************************)
(* ConfigLoader (config loader source, BuildMachine): a machine built from  *)
(* a document that names its guards, actions and hooks                      *)
(***************************************************************************)

\* How many entries (states, events, transitions, hooks) a document has at
\* most.
MaxConfig == 3

\* fmt.Errorf(format, name): not an FSMError.
Errorf(format, name) == [Type |-> "error", State |-> "", Event |-> "", Cause |-> format \o ": " \o name]

\* NewConfigLoader: the three registries with the default names in them.
NewConfigLoader ==
    [conditions |-> {"always_true", "always_false", "context_has_key", "context_equals", "context_greater_than"},
     actions    |-> {"log", "set_context", "increment_counter"},
     hooks      |-> {"log_transition", "log_state_enter"}]

RegisterCondition(cl, name) == [cl EXCEPT !.conditions = @ \cup {name}]

RegisterAction(cl, name) == [cl EXCEPT !.actions = @ \cup {name}]

RegisterHook(cl, name) == [cl EXCEPT !.hooks = @ \cup {name}]

\* What a registered factory returns: the guard and the action the model
\* has a body for, and otherwise a callable known by its registry name.
ConditionFactory(name) == IF name = "context_has_key" THEN "ContextHasKey" ELSE name

ActionFactory(name) == IF name = "set_context" THEN "SetContextValue" ELSE name

HookFactory(name) == name

\* A ConfigMachine (Name and Description left out; a state and an event are
\* their names; Hooks maps a hook type string to the hook actions under it).
ConfigMachine(states, events, transitions, hooks, initialState, context) ==
    [States |-> states, Events |-> events, Transitions |-> transitions, Hooks |-> hooks, InitialState |-> initialState, Context |-> context]

TransitionConfig(from, event, to, condition, action) == [From |-> from, Event |-> event, To |-> to, Condition |-> condition, Action |-> action]

\* strings.ToLower, on the hook type strings the documents use: one of them
\* has upper-case letters.
ToLower(s) == IF s = "ON_STATE_EXIT" THEN "on_state_exit" ELSE s

\* parseHookType comparing the string as it is written.
parseHookType_Exact(hookTypeStr) ==
    IF hookTypeStr = "before_transition" THEN [hookType |-> BeforeTransition, err |-> NilError]
    ELSE IF hookTypeStr = "after_transition" THEN [hookType |-> AfterTransition, err |-> NilError]
    ELSE IF hookTypeStr = "on_state_enter" THEN [hookType |-> OnStateEnter, err |-> NilError]
    ELSE IF hookTypeStr = "on_state_exit" THEN [hookType |-> OnStateExit, err |-> NilError]
    ELSE IF hookTypeStr = "on_transition_error" THEN [hookType |-> OnTransitionError, err |-> NilError]
    ELSE [hookType |-> BeforeTransition, err |-> Errorf("unknown hook type", hookTypeStr)]

\* parseHookType: the HookType (the zero value, BeforeTransition, with an
\* error) of a hook type string.
parseHookType(hookTypeStr) ==
    LET s == ToLower(hookTypeStr)
    IN IF s = "before_transition" THEN [hookType |-> BeforeTransition, err |-> NilError]
       ELSE IF s = "after_transition" THEN [hookType |-> AfterTransition, err |-> NilError]
       ELSE IF s = "on_state_enter" THEN [hookType |-> OnStateEnter, err |-> NilError]
       ELSE IF s = "on_state_exit" THEN [hookType |-> OnStateExit, err |-> NilError]
       ELSE IF s = "on_transition_error" THEN [hookType |-> OnTransitionError, err |-> NilError]
       ELSE [hookType |-> BeforeTransition, err |-> Errorf("unknown hook type", hookTypeStr)]

\* The loop over config.Transitions: the builder it leaves and the error it
\* returns with, if any.
RECURSIVE AddConfigTransitions(_, _, _)
AddConfigTransitions(cl, b, transitions) ==
    IF transitions = <<>> THEN [b |-> b, err |-> NilError]
    ELSE LET t == Head(transitions)
             condition == IF t.Condition # "" THEN ConditionFactory(t.Condition) ELSE NilFunc
             action == IF t.Action # "" THEN ActionFactory(t.Action) ELSE NilFunc
         IN IF t.Condition # "" /\ t.Condition \notin cl.conditions THEN [b |-> b, err |-> Errorf("unknown condition", t.Condition)]
            ELSE IF t.Action # "" /\ t.Action \notin cl.actions THEN [b |-> b, err |-> Errorf("unknown action", t.Action)]
            ELSE AddConfigTransitions(cl,
                     IF condition # NilFunc /\ action # NilFunc THEN AddTransitionFull(b, t.From, t.Event, t.To, condition, action)
                     ELSE IF condition # NilFunc THEN AddTransitionWithCondition(b, t.From, t.Event, t.To, condition)
                     ELSE IF action # NilFunc THEN AddTransitionWithAction(b, t.From, t.Event, t.To, action)
                     ELSE FSMBuilder_AddTransition(b, t.From, t.Event, t.To),
                     Tail(transitions))

\* The switch on hookType.
AddHookOfType(m, hookType, hook) ==
    IF hookType = BeforeTransition THEN AddBeforeTransitionHook(m, hook)
    ELSE IF hookType = AfterTransition THEN AddAfterTransitionHook(m, hook)
    ELSE IF hookType = OnStateEnter THEN AddOnStateEnterHook(m, hook)
    ELSE IF hookType = OnStateExit THEN AddOnStateExitHook(m, hook)
    ELSE AddOnTransitionErrorHook(m, hook)

\* The loop over the hook actions under one hook type string.
RECURSIVE AddConfigHooks(_, _, _, _)
AddConfigHooks(cl, b, hookType, hookConfigs) ==
    IF hookConfigs = <<>> THEN [b |-> b, err |-> NilError]
    ELSE IF Head(hookConfigs) \notin cl.hooks THEN [b |-> b, err |-> Errorf("unknown hook action", Head(hookConfigs))]
    ELSE AddConfigHooks(cl, [b EXCEPT !.machine = AddHookOfType(@, hookType, HookFactory(Head(hookConfigs)))], hookType, Tail(hookConfigs))

\* The loop over config.Hooks, taking the hook type strings in one order.
RECURSIVE AddConfigHookTypes(_, _, _, _)
AddConfigHookTypes(cl, b, hooks, order) ==
    IF order = <<>> THEN [b |-> b, err |-> NilError]
    ELSE LET parsed == parseHookType(Head(order))
         IN IF parsed.err # NilError THEN [b |-> b, err |-> Errorf("invalid hook type", Head(order))]
            ELSE LET r == AddConfigHooks(cl, b, parsed.hookType, hooks[Head(order)])
                 IN IF r.err # NilError THEN r ELSE AddConfigHookTypes(cl, r.b, hooks, Tail(order))

\* The initial context written into the machine Build returned.
SetInitialContext(m, context) ==
    IF context.isNil THEN m
    ELSE [m EXCEPT !.context = [k \in DOMAIN @ \cup DOMAIN context.entries |->
                                   IF k \in DOMAIN context.entries THEN context.entries[k] ELSE @[k]]]

\* What BuildMachine may return: the machine ("nil", or "machine" and then
\* sm is it), the error and the hooks that ran.  Go ranges over the Hooks
\* map in an order of its choosing, and so does Validate over its maps.
BuildMachine(cl, config) ==
    LET b1 == AddEvents(AddStates(NewBuilder, config.States), config.Events)
        t == AddConfigTransitions(cl, b1, config.Transitions)
        Failed(err) == [returned |-> "nil", sm |-> NewStateMachine, err |-> err, trace |-> <<>>]
    IN IF t.err # NilError THEN {Failed(t.err)}
       ELSE UNION {
              LET h == AddConfigHookTypes(cl, t.b, config.Hooks, order)
              IN IF h.err # NilError THEN {Failed(h.err)}
                 ELSE {IF r.err # NilError THEN Failed(r.err)
                       ELSE [returned |-> "machine", sm |-> SetInitialContext(r.b.machine, config.Context), err |-> NilError, trace |-> r.trace]
                       : r \in Build(IF config.InitialState # "" THEN SetInitialState(h.b, config.InitialState) ELSE h.b)}
              : order \in Orders(DOMAIN config.Hooks)}

(***************************************************************************)
(* The caller of a ConfigLoader: it writes a document entry by entry,       *)
(* registers names of its own and calls BuildMachine                        *)
(***************************************************************************)

\* The transitions the documents are written with.  is_vip and launch are
\* names the caller may register; the defaults lack them.
ConfigTransitions ==
    {TransitionConfig("red", "go", "green", "", ""),
     TransitionConfig("red", "go", "green", "context_has_key", "set_context"),
     TransitionConfig("red", "go", "yellow", "is_vip", ""),
     TransitionConfig("green", "go", "red", "", "launch"),
     TransitionConfig("green", "go", "red", "is_vip", "launch")}

\* The hooks: a hook type string and a hook action.  on_enter is no hook
\* type; notify is a name the caller may register.
ConfigHooks ==
    {<<"on_state_enter", "log_state_enter">>,
     <<"ON_STATE_EXIT", "log_transition">>,
     <<"on_enter", "log_transition">>,
     <<"after_transition", "notify">>}

EmptyConfig == ConfigMachine(<<>>, <<>>, <<>>, EmptyMap, "", NilMap)

RECURSIVE SumLen(_, _)
SumLen(f, keys) == IF keys = {} THEN 0 ELSE LET k == CHOOSE k \in keys : TRUE IN Len(f[k]) + SumLen(f, keys \ {k})

ConfigEntries(config) == Len(config.States) + Len(config.Events) + Len(config.Transitions) + SumLen(config.Hooks, DOMAIN config.Hooks)

\* A step of the caller: the loader and the document it leaves, what
\* BuildMachine returned in it (returned "none": it was another call).
Loaded(cl, config, r) ==
    /\ loader' = [cl |-> cl, config |-> config, returned |-> r.returned, err |-> r.err, trace |-> r.trace]
    /\ sm' = r.sm
    /\ UNCHANGED <<setup, call, blocked, path, started, answer, builder>>
    /\ UNCHANGED <<snap, es, chans, fsms, procs, caller, hist>>
    /\ UNCHANGED concVars

NotBuilt == [returned |-> "none", sm |-> NewStateMachine, err |-> NilError, trace |-> <<>>]

Written(config) ==
    /\ ConfigEntries(config) <= MaxConfig
    /\ config # loader.config
    /\ Loaded(loader.cl, config, NotBuilt)

ConfigAddState == Written([loader.config EXCEPT !.States = Append(@, "red")])

ConfigAddEvent == Written([loader.config EXCEPT !.Events = Append(@, "go")])

ConfigAddTransition == \E t \in ConfigTransitions : Written([loader.config EXCEPT !.Transitions = Append(@, t)])

ConfigAddHook ==
    \E h \in ConfigHooks :
        Written([loader.config EXCEPT !.Hooks = [k \in DOMAIN @ \cup {h[1]} |-> IF k \in DOMAIN @ THEN (IF k = h[1] THEN Append(@[k], h[2]) ELSE @[k]) ELSE <<h[2]>>]])

ConfigSetInitialState == Written([loader.config EXCEPT !.InitialState = "red"])

ConfigSetContext == Written([loader.config EXCEPT !.Context = MapOf([token |-> "1"])])

LoaderRegistered(cl) ==
    /\ cl # loader.cl
    /\ Loaded(cl, loader.config, NotBuilt)

CallRegisterCondition == LoaderRegistered(RegisterCondition(loader.cl, "is_vip"))

CallRegisterAction == LoaderRegistered(RegisterAction(loader.cl, "launch"))

CallRegisterHook == LoaderRegistered(RegisterHook(loader.cl, "notify"))

CallBuildMachine ==
    /\ loader.returned = "none"
    /\ \E r \in BuildMachine(loader.cl, loader.config) : Loaded(loader.cl, loader.config, r)

InitLoader ==
    /\ sm = NewStateMachine
    /\ loader = [cl |-> NewConfigLoader, config |-> EmptyConfig, returned |-> "none", err |-> NilError, trace |-> <<>>]
    /\ snap = NoSnapshot
    /\ es = NoBus
    /\ chans = <<>>
    /\ fsms = <<>>
    /\ procs = <<>>
    /\ caller = NoBus
    /\ hist = NoBus
    /\ setup = [def |-> 1, pc |-> 1]
    /\ call = [op |-> "NewConfigLoader", arg |-> "", pre |-> NewStateMachine, wasBlocked |-> "", result |-> NilResult, err |-> NilError, trace |-> <<>>]
    /\ blocked = ""
    /\ path = <<>>
    /\ started = NoState
    /\ answer = NoAnswer
    /\ builder = NoBuilder
    /\ ConcIdle

NextLoader ==
    \/ ConfigAddState
    \/ ConfigAddEvent
    \/ ConfigAddTransition
    \/ ConfigAddHook
    \/ ConfigSetInitialState
    \/ ConfigSetContext
    \/ CallRegisterCondition
    \/ CallRegisterAction
    \/ CallRegisterHook
    \/ CallBuildMachine

SpecLoader == InitLoader /\ [][NextLoader]_vars

(***************************************************************************)
(* Properties of BuildMachine                                              *)
(***************************************************************************)

\* The five hook type names.
HookTypeNames == {"before_transition", "after_transition", "on_state_enter", "on_state_exit", "on_transition_error"}

TheConfig == loader.config

NamesUnknownCondition == \E i \in DOMAIN TheConfig.Transitions : TheConfig.Transitions[i].Condition \notin loader.cl.conditions \cup {""}

NamesUnknownAction == \E i \in DOMAIN TheConfig.Transitions : TheConfig.Transitions[i].Action \notin loader.cl.actions \cup {""}

NamesUnknownHook == \E k \in DOMAIN TheConfig.Hooks : \E i \in DOMAIN TheConfig.Hooks[k] : TheConfig.Hooks[k][i] \notin loader.cl.hooks

\* The document gives the machine a state and an event, which Build asks
\* for (a transition brings its own).
HasStateAndEvent ==
    /\ TheConfig.States # <<>> \/ TheConfig.Transitions # <<>> \/ TheConfig.InitialState # ""
    /\ TheConfig.Events # <<>> \/ TheConfig.Transitions # <<>>

\* The machine has one transition for every (from, event) pair of the
\* document, with the target, the guard and the action that the last
\* document transition of the pair names, bound by the registries.
CarriesBound ==
    /\ DOMAIN sm.transitions = {transitionKey(TheConfig.Transitions[i].From, TheConfig.Transitions[i].Event) : i \in DOMAIN TheConfig.Transitions}
    /\ \A i \in DOMAIN TheConfig.Transitions :
          LET t == TheConfig.Transitions[i]
          IN (\A j \in DOMAIN TheConfig.Transitions : (j > i) => (TheConfig.Transitions[j].From # t.From \/ TheConfig.Transitions[j].Event # t.Event)) =>
                sm.transitions[transitionKey(t.From, t.Event)] =
                    Transition(t.From, t.Event, t.To,
                               IF t.Condition = "" THEN NilFunc ELSE ConditionFactory(t.Condition),
                               IF t.Action = "" THEN NilFunc ELSE ActionFactory(t.Action))

BuildFailed == loader.returned = "nil" /\ loader.err # NilError

BuildSucceeded == loader.returned = "machine" /\ loader.err = NilError /\ CarriesBound

\* C30 as stated: BuildMachine fails and returns no machine whenever the
\* document names a condition, an action or a hook action that is not in
\* its registry, or a hook kind that is not one of the five lowercase
\* names; with only registered names (and a state and an event for Build
\* to accept) it returns a machine whose transitions carry the bound guard
\* and action.
C30_ExactHookKinds ==
    loader.returned # "none" =>
        LET unknown == NamesUnknownCondition \/ NamesUnknownAction \/ NamesUnknownHook \/ \E k \in DOMAIN TheConfig.Hooks : k \notin HookTypeNames
        IN /\ unknown => BuildFailed
           /\ (~unknown /\ HasStateAndEvent) => BuildSucceeded

\* C30, amended: the same, with a hook kind read whatever its letter case:
\* BuildMachine fails whenever the document names an unregistered
\* condition, action or hook action, or a hook kind that is none of the
\* five names once lowercased; with only registered names (and a state and
\* an event for Build to accept) it returns a machine whose transitions
\* carry the bound guard and action.
C30_BuildMachineNames ==
    loader.returned # "none" =>
        LET unknown == NamesUnknownCondition \/ NamesUnknownAction \/ NamesUnknownHook \/ \E k \in DOMAIN TheConfig.Hooks : ToLower(k) \notin HookTypeNames
        IN /\ unknown => BuildFailed
           /\ (~unknown /\ HasStateAndEvent) => BuildSucceeded

\* BuildMachine has returned a machine for a document that writes a hook
\* kind in upper case and names a registered guard and action: the hook is
\* on the machine and the transition carries the guard.
C30_Witness ==
    /\ loader.returned = "machine"
    /\ "ON_STATE_EXIT" \in DOMAIN TheConfig.Hooks
    /\ sm.hooks[OnStateExit] = <<"log_transition">>
    /\ transitionKey("red", "go") \in DOMAIN sm.transitions
    /\ sm.transitions[transitionKey("red", "go")].Condition = "ContextHasKey"
    /\ sm.transitions[transitionKey("red", "go")].Action = "SetContextValue"

(***************************************************************************)
(* NaturalLanguageParser (natural-language parser source): a description    *)
(* is scanned by six regular expressions.  A description is modelled as     *)
(* its sequence of tokens: words, "," and ":" and line breaks; two words    *)
(* that follow each other have white space between them.                   *)
(***************************************************************************)

\* How many transition lines a description has at most.
MaxLines == 2

\* A line break.
NL == "\n"

IsWord(t) == t \notin {",", ":", NL}

\* The character class [a-zA-Z0-9_,\s] of the two list patterns: words,
\* commas and white space, line breaks included; a colon ends it.
InListClass(t) == t # ":"

\* (?i): a word in lower case, for the words of the descriptions.
Lowered(w) == IF w = "States" THEN "states" ELSE IF w = "Events" THEN "events" ELSE IF w = "From" THEN "from" ELSE w

\* The words in which states? (events?) occurs, and the words that end in
\* in|at|state (when|on|event) and in from: a pattern is not anchored at the
\* start of a word.
MatchesKeyword(w, pattern) ==
    \/ pattern = "state_list" /\ Lowered(w) = "states"
    \/ pattern = "event_list" /\ Lowered(w) = "events"
    \/ pattern = "events" /\ Lowered(w) \in {"when", "on"}
    \/ pattern = "transition" /\ Lowered(w) = "from"

\* The last token of the longest run of list-class tokens that starts at j
\* (j - 1 if there is none).
RECURSIVE RunEnd(_, _)
RunEnd(d, j) == IF j <= Len(d) /\ InListClass(d[j]) THEN RunEnd(d, j + 1) ELSE j - 1

\* strings.Split(match[1], ",") and strings.TrimSpace of each part: the
\* parts of a run of tokens, a part being its words with the white space
\* between them, a line break where one is.
RECURSIVE SplitNames(_, _, _, _)
SplitNames(tokens, name, broken, names) ==
    IF tokens = <<>> THEN Append(names, name)
    ELSE LET t == Head(tokens)
         IN IF t = "," THEN SplitNames(Tail(tokens), "", FALSE, Append(names, name))
            ELSE IF t = NL THEN SplitNames(Tail(tokens), name, name # "", names)
            ELSE SplitNames(Tail(tokens), IF name = "" THEN t ELSE name \o (IF broken THEN NL ELSE " ") \o t, FALSE, names)

\* FindAllStringSubmatch of a list pattern, states?:?\s*([a-zA-Z0-9_,\s]+),
\* from token i on: the names of every match, one match after the other.
\* The keyword is followed by a name in every description written here.
RECURSIVE ListNames(_, _, _)
ListNames(d, i, pattern) ==
    IF i > Len(d) THEN <<>>
    ELSE IF IsWord(d[i]) /\ MatchesKeyword(d[i], pattern)
         THEN LET j == IF i < Len(d) /\ d[i + 1] = ":" THEN i + 2 ELSE i + 1
                  k == RunEnd(d, j)
              IN IF k >= j THEN SplitNames(SubSeq(d, j, k), "", FALSE, <<>>) \o ListNames(d, k + 1, pattern)
                 ELSE ListNames(d, i + 1, pattern)
         ELSE ListNames(d, i + 1, pattern)

\* The word that follows token i after white space only (0: there is none).
RECURSIVE NextWord(_, _)
NextWord(d, i) ==
    IF i >= Len(d) THEN 0
    ELSE IF d[i + 1] = NL THEN NextWord(d, i + 1)
    ELSE IF IsWord(d[i + 1]) THEN i + 1 ELSE 0

\* FindAllStringSubmatch of (?:when|on|event)\s+([a-zA-Z0-9_]+) and of its
\* like for states: the word after every keyword.
RECURSIVE KeywordNames(_, _, _)
KeywordNames(d, i, pattern) ==
    IF i > Len(d) THEN <<>>
    ELSE IF IsWord(d[i]) /\ MatchesKeyword(d[i], pattern) /\ NextWord(d, i) # 0
         THEN <<d[NextWord(d, i)]>> \o KeywordNames(d, NextWord(d, i) + 1, pattern)
         ELSE KeywordNames(d, i + 1, pattern)

\* The names a state or event pattern finds.
PatternNames(d, pattern) ==
    IF pattern \in {"state_list", "event_list"} THEN ListNames(d, 1, pattern) ELSE KeywordNames(d, 1, pattern)

\* from\s+(\w+)\s+(?:to|->)\s+(\w+)\s+(?:when|on)\s+(\w+) at token i: the
\* tokens of from, to and event and the last token of the match.
TransitionMatch(d, i) ==
    LET a == NextWord(d, i)
        to == IF a = 0 THEN 0 ELSE NextWord(d, a)
        b == IF to = 0 THEN 0 ELSE NextWord(d, to)
        on == IF b = 0 THEN 0 ELSE NextWord(d, b)
        e == IF on = 0 THEN 0 ELSE NextWord(d, on)
    IN IF IsWord(d[i]) /\ MatchesKeyword(d[i], "transition") /\ e # 0 /\ Lowered(d[to]) = "to" /\ Lowered(d[on]) \in {"when", "on"}
       THEN [from |-> d[a], to |-> d[b], event |-> d[e], end |-> e]
       ELSE [from |-> "", to |-> "", event |-> "", end |-> 0]

\* (\w+)\s+(?:->|to)\s+(\w+) at token i; the event is the default one.
SimpleMatch(d, i) ==
    LET to == NextWord(d, i)
        b == IF to = 0 THEN 0 ELSE NextWord(d, to)
    IN IF IsWord(d[i]) /\ b # 0 /\ Lowered(d[to]) = "to"
       THEN [from |-> d[i], to |-> d[b], event |-> "trigger", end |-> b]
       ELSE [from |-> "", to |-> "", event |-> "", end |-> 0]

\* FindAllStringSubmatch of a transition pattern from token i on.
RECURSIVE PatternTransitions(_, _, _)
PatternTransitions(d, i, pattern) ==
    IF i > Len(d) THEN <<>>
    ELSE LET m == IF pattern = "transition" THEN TransitionMatch(d, i) ELSE SimpleMatch(d, i)
         IN IF m.end # 0 THEN <<TransitionConfig(m.from, m.event, m.to, "", "")>> \o PatternTransitions(d, m.end + 1, pattern)
            ELSE PatternTransitions(d, i + 1, pattern)

\* extractTransitions, ranging over its two patterns in one order.
extractTransitions(d, order) == PatternTransitions(d, 1, order[1]) \o PatternTransitions(d, 1, order[2])

\* The names of a sequence, each once, in the order of their first
\* occurrence, the empty name left out.
RECURSIVE Distinct(_, _)
Distinct(names, seen) ==
    IF names = <<>> THEN <<>>
    ELSE IF Head(names) = "" \/ Head(names) \in seen THEN Distinct(Tail(names), seen)
    ELSE <<Head(names)>> \o Distinct(Tail(names), seen \cup {Head(names)})

RECURSIVE Ends(_)
Ends(transitions) == IF transitions = <<>> THEN <<>> ELSE <<Head(transitions).From, Head(transitions).To>> \o Ends(Tail(transitions))

inferStatesFromTransitions(d, order) == Distinct(Ends(extractTransitions(d, order)), {})

inferEventsFromTransitions(d, order) ==
    Distinct([i \in DOMAIN extractTransitions(d, order) |-> extractTransitions(d, order)[i].Event], {})

\* extractStates, ranging over its two patterns in one order (and, with no
\* name found, over the transition patterns in another).
extractStates(d, order, inner) ==
    LET states == Distinct(PatternNames(d, order[1]) \o PatternNames(d, order[2]), {})
    IN IF states = <<>> THEN inferStatesFromTransitions(d, inner) ELSE states

extractEvents(d, order, inner) ==
    LET events == Distinct(PatternNames(d, order[1]) \o PatternNames(d, order[2]), {})
    IN IF events = <<>> THEN inferEventsFromTransitions(d, inner) ELSE events

\* The documents ParseDescription may return: Go ranges over each of the
\* three pattern maps in an order of its choosing.
ParseDescription(d) ==
    {LET states == extractStates(d, so, io)
     IN ConfigMachine(states, extractEvents(d, eo, io), extractTransitions(d, to), EmptyMap,
                      IF states # <<>> THEN states[1] ELSE "", MapOf(EmptyMap))
     : so \in Orders({"state_list", "states"}), eo \in Orders({"event_list", "events"}),
       to \in Orders({"transition", "simple"}), io \in Orders({"transition", "simple"})}

(***************************************************************************)
(* The caller of the parser: it writes a description of the line-oriented   *)
(* form, has it parsed and hands the document to BuildMachine               *)
(***************************************************************************)

\* name, name, ...
RECURSIVE CommaList(_)
CommaList(names) == IF Len(names) <= 1 THEN names ELSE <<Head(names), ",">> \o CommaList(Tail(names))

\* From S to T when E, one line for every transition.
RECURSIVE TransitionLines(_)
TransitionLines(triples) ==
    IF triples = <<>> THEN <<>>
    ELSE <<NL, "From", Head(triples)[1], "to", Head(triples)[3], "when", Head(triples)[2]>> \o TransitionLines(Tail(triples))

\* The text of a definition: a States: line, an Events: line and the
\* transition lines.
Description(def) ==
    <<"States", ":">> \o CommaList(def.states) \o <<NL, "Events", ":">> \o CommaList(def.events) \o TransitionLines(def.triples)

\* The definitions the caller describes: the states and the events
\* declared, in order, and (from, event, to) triples over them, one for a
\* (from, event) pair.
DeclaredStates == {<<"idle", "working", "done">>, <<"working", "idle">>, <<"done">>}

DeclaredEvents == {<<"start", "finish">>, <<"finish">>}

Described ==
    {def \in [states : DeclaredStates, events : DeclaredEvents,
              triples : UNION {[1..n -> {"idle", "working", "done"} \X {"start", "finish"} \X {"idle", "working", "done"}] : n \in 0..MaxLines}] :
        /\ \A i \in DOMAIN def.triples :
              /\ def.triples[i][1] \in Range(def.states) /\ def.triples[i][3] \in Range(def.states)
              /\ def.triples[i][2] \in Range(def.events)
        /\ \A i, j \in DOMAIN def.triples : (def.triples[i][1] = def.triples[j][1] /\ def.triples[i][2] = def.triples[j][2]) => i = j}

\* A step of the caller of the parser.
Parsed(stage, config, r) ==
    /\ loader' = [loader EXCEPT !.stage = stage, !.config = config, !.returned = r.returned, !.err = r.err, !.trace = r.trace]
    /\ sm' = r.sm
    /\ UNCHANGED <<setup, call, blocked, path, started, answer, builder>>
    /\ UNCHANGED <<snap, es, chans, fsms, procs, caller, hist>>
    /\ UNCHANGED concVars

CallParseDescription ==
    /\ loader.stage = "written"
    /\ \E config \in ParseDescription(Description(loader.def)) : Parsed("parsed", config, NotBuilt)

CallBuildParsed ==
    /\ loader.stage = "parsed"
    /\ \E r \in BuildMachine(loader.cl, loader.config) : Parsed("built", loader.config, r)

InitParser ==
    /\ sm = NewStateMachine
    /\ \E def \in Described :
          loader = [cl |-> NewConfigLoader, def |-> def, stage |-> "written", config |-> EmptyConfig,
                    returned |-> "none", err |-> NilError, trace |-> <<>>]
    /\ snap = NoSnapshot
    /\ es = NoBus
    /\ chans = <<>>
    /\ fsms = <<>>
    /\ procs = <<>>
    /\ caller = NoBus
    /\ hist = NoBus
    /\ setup = [def |-> 1, pc |-> 1]
    /\ call = [op |-> "NewNaturalLanguageParser", arg |-> "", pre |-> NewStateMachine, wasBlocked |-> "", result |-> NilResult, err |-> NilError, trace |-> <<>>]
    /\ blocked = ""
    /\ path = <<>>
    /\ started = NoState
    /\ answer = NoAnswer
    /\ builder = NoBuilder
    /\ ConcIdle

NextParser ==
    \/ CallParseDescription
    \/ CallBuildParsed

SpecParser == InitParser /\ [][NextParser]_vars

\* C31: a description made of one states line, one events line and
\* transition lines, parsed and then built, gives a machine whose states
\* are exactly the declared states, whose events are exactly the declared
\* events, whose transitions are exactly the described triples without
\* guard or action, and whose initial state is the first declared state.
C31_RoundTrip ==
    loader.stage = "built" =>
        /\ loader.returned = "machine"
        /\ sm.states = Range(loader.def.states)
        /\ sm.events = Range(loader.def.events)
        /\ Range(sm.transitions) = {Transition(t[1], t[2], t[3], NilFunc, NilFunc) : t \in Range(loader.def.triples)}
        /\ sm.initialState = loader.def.states[1]

(***************************************************************************)
(* A callback that calls back.  Every operation of the machine takes       *)
(* sm.mu first (Lock or RLock) and keeps it to its return; hooks, guards   *)
(* and actions run inside it (state_machine.go 103-199, 323-329).  The     *)
(* mutex has no owner: a Lock or RLock made while a Lock is held waits,    *)
(* whoever holds it.                                                      *)
(***************************************************************************)

\* The thread of the caller and the thread a callback may spawn.
ReThreads == {"caller", "spawned"}

IdleCall == [pc |-> "idle", op |-> "", arg |-> "", follow |-> "", mode |-> "", depth |-> 0, returned |-> 0]

\* The operations that dispatch callbacks, and the two a callback may make.
OuterCalls ==
    {[op |-> "SendEvent", arg |-> e] : e \in EventLabels}
    \cup {[op |-> o, arg |-> s] : o \in {"SetState", "Start"}, s \in {"red", "green"}}
    \cup {[op |-> o, arg |-> ""] : o \in {"Stop", "Reset"}}

FollowUps == {[op |-> "SendEvent", arg |-> "go"], [op |-> "CurrentState", arg |-> ""]}

\* The operation run under the lock.
Operate(m, op, arg) ==
    CASE op = "SendEvent" -> SendEvent(m, arg)
      [] op = "SetState" -> SetState(m, arg)
      [] op = "Start" -> Start(m, arg)
      [] op = "Stop" -> Stop(m)
      [] op = "Reset" -> Reset(m)
      [] op = "CurrentState" -> Return(m, NilResult, NilError, <<>>)

\* Whether the operation calls a hook, a guard or an action.
Dispatches(m, op, arg) ==
    \/ Operate(m, op, arg).trace # <<>>
    \/ /\ op = "SendEvent" /\ m.running /\ arg \in m.events
       /\ transitionKey(m.currentState, arg) \in DOMAIN m.transitions
       /\ m.transitions[transitionKey(m.currentState, arg)].Condition # NilFunc

\* The call a thread is in: the one its callback made, if it made one.
Innermost(c) == IF c.depth = 1 THEN c.follow ELSE [op |-> c.op, arg |-> c.arg]

\* A step of a thread on the machine.
Reentered(t, c, m, l) ==
    /\ thr' = [thr EXCEPT ![t] = c]
    /\ sm' = m
    /\ mu' = l
    /\ UNCHANGED <<ctxBusy, crashed, lastTo, chained, commits, successes>>
    /\ UNCHANGED seqVars

\* The caller calls an operation; the first callback the operation
\* dispatches will call follow, on its own thread ("sync") or on a new one
\* ("go"), or nothing.
ReCall ==
    /\ thr["caller"].pc = "idle"
    /\ calls < MaxCalls
    /\ calls' = calls + 1
    /\ \E c \in OuterCalls, f \in FollowUps \cup {[op |-> "", arg |-> ""]}, mode \in {"sync", "go"} :
          /\ f.op = "" => mode = "sync"
          /\ mode = "go" => thr["spawned"].pc = "idle"
          /\ Reentered("caller", [thr["caller"] EXCEPT !.pc = "lock", !.op = c.op, !.arg = c.arg, !.follow = f, !.mode = mode], sm, mu)

\* sm.mu.Lock(), or sm.mu.RLock() in CurrentState.
ReAcquire(t) ==
    /\ thr[t].pc = "lock"
    /\ UNCHANGED calls
    /\ IF Innermost(thr[t]).op = "CurrentState"
       THEN CanRLock(mu) /\ Reentered(t, [thr[t] EXCEPT !.pc = "run"], sm, [mu EXCEPT !.readers = @ \cup {t}])
       ELSE CanLock(mu) /\ Reentered(t, [thr[t] EXCEPT !.pc = "run"], sm, [mu EXCEPT !.writer = t])

\* The operation under the lock.  Its first callback makes the follow-up
\* call, and waits for it if it made it on its own thread: the operation
\* goes no further.
ReRun(t) ==
    /\ thr[t].pc = "run"
    /\ UNCHANGED calls
    /\ LET c == thr[t]
           r == Operate(sm, Innermost(c).op, Innermost(c).arg)
       IN IF c.depth = 0 /\ c.follow.op # "" /\ Dispatches(sm, c.op, c.arg)
          THEN IF c.mode = "sync"
               THEN Reentered(t, [c EXCEPT !.pc = "lock", !.depth = 1], sm, mu)
               ELSE /\ thr' = [thr EXCEPT ![t] = [c EXCEPT !.pc = "unlock"],
                                          !["spawned"] = [IdleCall EXCEPT !.pc = "lock", !.op = c.follow.op, !.arg = c.follow.arg,
                                                                         !.follow = [op |-> "", arg |-> ""], !.returned = thr["spawned"].returned]]
                    /\ sm' = r.sm
                    /\ UNCHANGED <<mu, ctxBusy, crashed, lastTo, chained, commits, successes>>
                    /\ UNCHANGED seqVars
          ELSE Reentered(t, [c EXCEPT !.pc = "unlock"], r.sm, mu)

\* The deferred Unlock or RUnlock, and the return.
ReRelease(t) ==
    /\ thr[t].pc = "unlock"
    /\ UNCHANGED calls
    /\ LET l == IF Innermost(thr[t]).op = "CurrentState" THEN [mu EXCEPT !.readers = @ \ {t}] ELSE [mu EXCEPT !.writer = ""]
       IN IF thr[t].depth = 1
          THEN Reentered(t, [thr[t] EXCEPT !.pc = "unlock", !.depth = 0, !.follow = [op |-> "", arg |-> ""]], sm, l)
          ELSE Reentered(t, [thr[t] EXCEPT !.pc = "idle", !.returned = @ + 1], sm, l)

\* A machine configured by TrafficLight, Gate or Plain, not started.
InitReentrant ==
    /\ \E d \in {1, 2, 3} :
          /\ sm = Configure(NewStateMachine, Definitions[d])
          /\ setup = [def |-> d, pc |-> Len(Definitions[d]) + 1]
    /\ call = [op |-> "NewStateMachine", arg |-> "", pre |-> NewStateMachine, wasBlocked |-> "", result |-> NilResult, err |-> NilError, trace |-> <<>>]
    /\ blocked = ""
    /\ path = <<>>
    /\ started = NoState
    /\ answer = NoAnswer
    /\ builder = NoBuilder
    /\ AuxIdle
    /\ thr = [t \in ReThreads |-> IdleCall]
    /\ mu = [writer |-> "", readers |-> {}]
    /\ ctxBusy = {}
    /\ crashed = FALSE
    /\ lastTo = ""
    /\ chained = TRUE
    /\ commits = 0
    /\ successes = 0
    /\ calls = 0

ReStep(t) == ReAcquire(t) \/ ReRun(t) \/ ReRelease(t)

NextReentrant ==
    \/ ReCall
    \/ \E t \in ReThreads :
          \/ ReAcquire(t)
          \/ ReRun(t)
          \/ ReRelease(t)

SpecReentrant == InitReentrant /\ [][NextReentrant]_vars

\* A thread that can take a step takes one; the caller need not call.
SpecReentrantFair == SpecReentrant /\ \A t \in ReThreads : WF_vars(ReStep(t))

\* The callback of some thread has called into the machine and waits.
Reentrant == \E t \in ReThreads : thr[t].depth = 1

\* C32: a call a hook, guard or action makes on its own thread into the
\* machine it runs in never gets the lock and never returns, the operation
\* that dispatched the callback never completes and keeps the lock, and no
\* other thread gets into the machine; the same call made from another
\* thread waits for the operation to return, and then completes.
C32_ReentrantDeadlock ==
    /\ [](\A t \in ReThreads : thr[t].depth = 1 =>
              /\ thr[t].pc = "lock" /\ mu.writer = t
              /\ \A u \in ReThreads \ {t} : thr[u].pc \notin {"run", "unlock"})
    /\ [](thr["spawned"].pc \in {"run", "unlock"} => thr["caller"].pc \notin {"run", "unlock"})
    /\ (thr["spawned"].pc = "lock" ~> (thr["spawned"].pc = "idle" \/ Reentrant))

C32_Witness ==
    /\ thr["caller"].depth = 1 /\ thr["caller"].op = "Stop" /\ thr["caller"].follow.op = "CurrentState"
    /\ thr["spawned"].returned > 0

(***************************************************************************)
(* RemoveTransition                                                        *)
(***************************************************************************)

\* The transitions a machine holds for a pair.
HeldFor(m, from, event) == {t \in Range(m.transitions) : t.From = from /\ t.Event = event}

\* The last call made for the pair was a RemoveTransition, after an
\* AddTransition for it.
RemovedLast(from, event) ==
    /\ AddedFor(from, event) # {}
    /\ \E i \in 1..Len(Done) :
          /\ Done[i].op = "RemoveTransition" /\ Touches(Done[i], from, event)
          /\ \A j \in AddedFor(from, event) : j < i

\* C33: RemoveTransition for a pair without a transition returns
\* TransitionNotFound and leaves the table as it was; for a pair with one it
\* removes that transition and no other; from then on SendEvent of the
\* event in the state, on a running machine, fails with InvalidTransition
\* and CanTransition answers false.
C33_RemoveTransition ==
    /\ call.op = "RemoveTransition" =>
          LET c == Done[Len(Done)]
          IN IF HeldFor(call.pre, c.from, c.event) = {}
             THEN call.err.Type = "TransitionNotFound" /\ sm = call.pre
             ELSE /\ call.err = NilError
                  /\ Range(sm.transitions) = Range(call.pre.transitions) \ HeldFor(call.pre, c.from, c.event)
                  /\ Cardinality(DOMAIN sm.transitions) = Cardinality(DOMAIN call.pre.transitions) - 1
                  /\ \A k \in DOMAIN sm.transitions : k \in DOMAIN call.pre.transitions /\ sm.transitions[k] = call.pre.transitions[k]
                  /\ [sm EXCEPT !.transitions = call.pre.transitions] = call.pre
    /\ (Sent(call) /\ RemovedLast(call.pre.currentState, call.arg)) =>
          /\ call.err.Type = "InvalidTransition"
          /\ sm.currentState = call.pre.currentState
    /\ (call.op = "CanTransition" /\ call.pre.running /\ RemovedLast(call.pre.currentState, call.arg)) => ~answer.can

\* SendEvent(go) in yellow, whose transition was removed, was refused, after
\* a RemoveTransition for a pair without transition had failed.
C33_Witness ==
    /\ Sent(call)
    /\ RemovedLast(call.pre.currentState, call.arg)
    /\ call.err.Type = "InvalidTransition"
    /\ \E i \in 1..Len(Done) : Done[i].op = "RemoveTransition" /\ AddedFor(Done[i].from, Done[i].event) = {}

(***************************************************************************)
(* StreamConfig.  NewEventStreamer fills the defaults into its copy of the  *)
(* configuration and returns a streamer that holds none of it              *)
(* (streaming.go 44-67).  QueueCap stands for the 100 of both the default   *)
(* buffer size and the queue RegisterMachine makes.                        *)
(***************************************************************************)

StreamConfig(bufferSize) == [BufferSize |-> bufferSize]

\* config.BufferSize after the defaults are filled in.
BufferSize(config) == IF config.BufferSize = 0 THEN QueueCap ELSE config.BufferSize

\* NewEventStreamer(config)
NewEventStreamerFrom(config) == NewEventStreamer

\* The buffer sizes a caller configures: left at 0, smaller than the
\* default, the default and larger.
BufferSizes == 0..(QueueCap + 1)

\* The bus of a caller who configured it; the configuration is kept for
\* reference.
InitConfigured ==
    /\ sm = NewStateMachine
    /\ setup = [def |-> 1, pc |-> 1]
    /\ call = [op |-> "NewEventStreamer", arg |-> "", pre |-> NewStateMachine, wasBlocked |-> "", result |-> NilResult, err |-> NilError, trace |-> <<>>]
    /\ blocked = ""
    /\ path = <<>>
    /\ started = NoState
    /\ answer = NoAnswer
    /\ builder = NoBuilder
    /\ snap = NoSnapshot
    /\ ConcIdle
    /\ \E n \in BufferSizes :
          /\ loader = StreamConfig(n)
          /\ es = NewEventStreamerFrom(StreamConfig(n))
    /\ chans = <<>>
    /\ fsms = [M1 |-> Start(Configure(NewStateMachine, Gate), "red").sm,
               M2 |-> Start(Configure(NewStateMachine, Plain), "red").sm]
    /\ procs = <<>>
    /\ caller \in {[IdleCaller EXCEPT !.script = s] : s \in DOMAIN Scenarios}
    /\ hist = NoHistory

SpecConfigured == InitConfigured /\ [][NextBus]_vars

\* C34: the queue of a machine holds at most the configured number of
\* messages (100 for a configured 0); while the processor takes none, the
\* PublishEvent that follows that many accepted ones is not accepted at
\* once.
C34_QueueBounded ==
    \A id \in DOMAIN es.publishers : Len(chans[es.publishers[id]].buf) <= BufferSize(loader)

(***************************************************************************)
(* The current state                                                       *)
(***************************************************************************)

\* C35: whatever calls were made, with or without success, the current
\* state is empty (the machine was never placed in a state) or a member of
\* the state set, and a running machine is in a member of the state set.
\* What carries it: the recorded initial state and the target of every
\* transition are members too.
C35_CurrentStateValid ==
    /\ sm.currentState = NoState \/ sm.currentState \in sm.states
    /\ sm.running => sm.currentState \in sm.states
    /\ sm.initialState = NoState \/ sm.initialState \in sm.states
    /\ \A t \in Range(sm.transitions) : t.To \in sm.states

\* A call that named a state outside the set was refused on a running
\* machine.
C35_Witness ==
    /\ call.op \in {"SetState", "Start"}
    /\ call.arg \notin sm.states
    /\ call.err.Type = "StateNotFound"
    /\ sm.running
    /\ sm.currentState \in sm.states

(***************************************************************************)
(* The enter and exit dispatches of a machine over its calls.  A dispatch   *)
(* is one executeHooks call; the hook "h1", registered for both kinds by    *)
(* the set-up programs used here, is run once by each.                     *)
(***************************************************************************)

\* The OnStateEnter and OnStateExit dispatches of a call, in order.
EnterExit(trace) == SelectSeq(trace, LAMBDA d : d.hook = "h1" /\ d.kind \in {OnStateEnter, OnStateExit})

\* The state a dispatch is for: the one entered, the one left.
StateOf(d) == IF d.kind = OnStateEnter THEN d.result.ToState ELSE d.result.FromState

\* What an observer of the dispatches remembers: the kind and the state of
\* the last one, and whether every dispatch so far came in turn (an enter
\* first and after an exit, an exit after an enter and for its state).
NoDispatch == [last |-> "none", state |-> NoState, inTurn |-> TRUE]

RECURSIVE Observed(_, _)
Observed(h, dispatches) ==
    IF dispatches = <<>> THEN h
    ELSE LET d == Head(dispatches)
             inTurn == IF d.kind = OnStateEnter THEN h.last # OnStateEnter
                       ELSE h.last = OnStateEnter /\ h.state = StateOf(d)
         IN Observed([last |-> d.kind, state |-> StateOf(d), inTurn |-> h.inTurn /\ inTurn], Tail(dispatches))

\* A call of the driver.
Hooked(op, arg, ret) ==
    /\ sm' = ret.sm
    /\ call' = Called(op, arg, sm, ret)
    /\ hist' = Observed(hist, EnterExit(ret.trace))
    /\ UNCHANGED <<setup, blocked, path, started, answer, builder>>
    /\ UNCHANGED <<snap, loader, es, chans, fsms, procs, caller>>
    /\ UNCHANGED concVars

HookedStart == \E s \in StateLabels : Hooked("Start", s, Start(sm, s))

HookedStop == Hooked("Stop", "", Stop(sm))

HookedReset == Hooked("Reset", "", Reset(sm))

HookedSetState == \E s \in StateLabels : Hooked("SetState", s, SetState(sm, s))

HookedSendEvent == \E e \in EventLabels : Hooked("SendEvent", e, SendEvent(sm, e))

\* A machine configured by TrafficLight, Gate or Override, in no state.
InitHooked ==
    /\ \E d \in {1, 2, 4} :
          /\ sm = Configure(NewStateMachine, Definitions[d])
          /\ setup = [def |-> d, pc |-> Len(Definitions[d]) + 1]
    /\ call = [op |-> "NewStateMachine", arg |-> "", pre |-> NewStateMachine, wasBlocked |-> "", result |-> NilResult, err |-> NilError, trace |-> <<>>]
    /\ blocked = ""
    /\ path = <<>>
    /\ started = NoState
    /\ answer = NoAnswer
    /\ builder = NoBuilder
    /\ snap = NoSnapshot
    /\ loader = NoLoader
    /\ es = NoBus
    /\ chans = <<>>
    /\ fsms = <<>>
    /\ procs = <<>>
    /\ caller = NoBus
    /\ hist = NoDispatch
    /\ ConcIdle

NextHooked ==
    \/ HookedStart
    \/ HookedStop
    \/ HookedReset
    \/ HookedSetState
    \/ HookedSendEvent

SpecHooked == InitHooked /\ [][NextHooked]_vars

\* C36: over any calls of Start, Stop, Reset, SetState and SendEvent the
\* OnStateEnter and OnStateExit dispatches alternate, an enter first; every
\* exit is for the state of the last enter, and when a call returns after
\* an exit the machine has stopped or has been entered again; no state is
\* entered twice without an exit between.
C36_EnterExitAlternate ==
    /\ hist.inTurn
    /\ hist.last = OnStateExit => ~sm.running

(***************************************************************************)
(* Labels that contain the separator of transitionKey.  State and Event    *)
(* are strings without restriction (types.go); AddState and AddEvent take  *)
(* any.                                                                    *)
(***************************************************************************)

KeyStates == {"a", "a:b"}

KeyEvents == {"c", "b:c"}

\* The machine with these labels registered, started in a.
KeyMachine ==
    Start(AddEvent(AddEvent(AddState(AddState(NewStateMachine, "a"), "a:b"), "c"), "b:c"), "a").sm

\* What the caller has registered and not removed since: the target of the
\* last AddTransition of every (from, event) pair.
NoPairs == [p \in {} |-> ""]

\* A call of the caller of this machine, who keeps the table of his pairs.
Keyed(op, arg, ret, table, ans) ==
    /\ sm' = ret.sm
    /\ call' = Called(op, arg, sm, ret)
    /\ hist' = table
    /\ answer' = ans
    /\ UNCHANGED <<setup, blocked, path, started, builder>>
    /\ UNCHANGED <<snap, loader, es, chans, fsms, procs, caller>>
    /\ UNCHANGED concVars

KeyedAddTransition ==
    \E from \in KeyStates, event \in KeyEvents, to \in KeyStates :
        LET r == AddTransition(sm, Transition(from, event, to, NilFunc, NilFunc))
        IN Keyed("AddTransition", event, Return(r.sm, NilResult, r.err, <<>>),
                 [p \in DOMAIN hist \cup {<<from, event>>} |-> IF p = <<from, event>> THEN to ELSE hist[p]], NoAnswer)

KeyedRemoveTransition ==
    \E from \in KeyStates, event \in KeyEvents :
        LET r == RemoveTransition(sm, from, event)
        IN Keyed("RemoveTransition", event, Return(r.sm, NilResult, r.err, <<>>),
                 [p \in DOMAIN hist \ {<<from, event>>} |-> hist[p]], NoAnswer)

KeyedSetState == \E s \in KeyStates : Keyed("SetState", s, SetState(sm, s), hist, NoAnswer)

KeyedSendEvent == \E e \in KeyEvents : Keyed("SendEvent", e, SendEvent(sm, e), hist, NoAnswer)

KeyedCanTransition ==
    \E e \in KeyEvents : Keyed("CanTransition", e, Return(sm, NilResult, NilError, <<>>), hist, [NoAnswer EXCEPT !.can = CanTransition(sm, e)])

InitKeyed ==
    /\ sm = KeyMachine
    /\ setup = [def |-> 1, pc |-> 1]
    /\ call = [op |-> "Start", arg |-> "a", pre |-> NewStateMachine, wasBlocked |-> "", result |-> NilResult, err |-> NilError, trace |-> <<>>]
    /\ blocked = ""
    /\ path = <<>>
    /\ started = "a"
    /\ answer = NoAnswer
    /\ builder = NoBuilder
    /\ snap = NoSnapshot
    /\ loader = NoLoader
    /\ es = NoBus
    /\ chans = <<>>
    /\ fsms = <<>>
    /\ procs = <<>>
    /\ caller = NoBus
    /\ hist = NoPairs
    /\ ConcIdle

NextKeyed ==
    \/ KeyedAddTransition
    \/ KeyedRemoveTransition
    \/ KeyedSetState
    \/ KeyedSendEvent
    \/ KeyedCanTransition

SpecKeyed == InitKeyed /\ [][NextKeyed]_vars

\* C37: transitions registered for two different (from, event) pairs do not
\* interfere, whatever the labels: the machine holds for every pair the
\* transition of its own last AddTransition, or none after its own
\* RemoveTransition, and SendEvent and CanTransition in a state use the
\* transition of the pair of that state and the event.
C37_PairsIndependent ==
    /\ \A from \in KeyStates, event \in KeyEvents :
          HeldFor(sm, from, event) =
             (IF <<from, event>> \in DOMAIN hist THEN {Transition(from, event, hist[<<from, event>>], NilFunc, NilFunc)} ELSE {})
    /\ call.op = "SendEvent" =>
          IF <<call.pre.currentState, call.arg>> \in DOMAIN hist
          THEN call.err = NilError /\ sm.currentState = hist[<<call.pre.currentState, call.arg>>]
          ELSE call.err.Type = "InvalidTransition"
    /\ call.op = "CanTransition" => (answer.can <=> <<sm.currentState, call.arg>> \in DOMAIN hist)

(***************************************************************************)
(* Calls on a closed bus                                                   *)
(***************************************************************************)

\* A step of the caller inside PublishEvent, BroadcastEvent or Close.
CallerStep == CallPublishEvent \/ PublishUnblock \/ PublishTimeout \/ BroadcastPublish \/ BroadcastReturn \/ CloseReturn

\* C38: a PublishEvent or BroadcastEvent made after Close returns, with
\* success or with an error, and does not send on a queue that Close has
\* closed; a second Close returns without closing a closed channel.  No
\* step of these calls ends in a panic.
C38_CallsSurviveClose == [][CallerStep => ~crashed']_vars

\* C39: during and after Close no machine is sent, and no handler is given,
\* a message that was never published (the zero message a closed channel
\* yields), and no processor sends on a subscriber channel that Close has
\* closed.
C39_NothingFromClosedChannels ==
    /\ [](hist.closeCalled => ~hist.spurious)
    /\ [][(\E g \in DOMAIN procs : ProcessorNotify(g)) => ~crashed']_vars

(***************************************************************************)
(* A message of the bus and other callers on one machine.                  *)
(* processEventOnMachine and ReplayEvents write the message's context with  *)
(* no machine lock held and then call SendEvent (streaming.go 188-201,      *)
(* 294-304); a direct caller calls SendEvent.  The steps are those of the   *)
(* threads above; a thread remembers which of the two it runs.             *)
(***************************************************************************)

IdleSender == [pc |-> "idle", ev |-> "", tr |-> NoTransition, res |-> NilResult, err |-> NilError, seen |-> "red", racy |-> FALSE, via |-> ""]

\* A thread calls SendEvent(e), or processes the message {token: 1} with
\* event e, as a processor or a replay does.
MessageCall(t) ==
    /\ Live
    /\ thr[t].pc = "idle"
    /\ calls < MaxCalls
    /\ calls' = calls + 1
    /\ \/ \E e \in EventLabels : thr' = [thr EXCEPT ![t] = [IdleSender EXCEPT !.pc = "lock", !.ev = e, !.via = "direct"]]
       \/ \E e \in EventLabels : thr' = [thr EXCEPT ![t] = [IdleSender EXCEPT !.pc = "getContext", !.ev = e, !.via = "message"]]
    /\ UNCHANGED <<sm, mu, ctxBusy, crashed, lastTo, chained, commits, successes>>
    /\ UNCHANGED seqVars

InitMessages ==
    /\ \E d \in {2, 3} :
          /\ sm = Start(Configure(NewStateMachine, Definitions[d]), "red").sm
          /\ setup = [def |-> d, pc |-> Len(Definitions[d]) + 1]
    /\ call = [op |-> "Start", arg |-> "red", pre |-> NewStateMachine, wasBlocked |-> "", result |-> NilResult, err |-> NilError, trace |-> <<>>]
    /\ blocked = ""
    /\ path = <<"red">>
    /\ started = "red"
    /\ answer = NoAnswer
    /\ builder = NoBuilder
    /\ AuxIdle
    /\ thr = [t \in Threads |-> IdleSender]
    /\ mu = [writer |-> "", readers |-> {}]
    /\ ctxBusy = {}
    /\ crashed = FALSE
    /\ lastTo = "red"
    /\ chained = TRUE
    /\ commits = 0
    /\ successes = 0
    /\ calls = 0

NextMessages ==
    \E t \in Threads :
        \/ MessageCall(t)
        \/ GetContext(t)
        \/ SetBegin(t)
        \/ MergeDone(t)
        \/ Lock(t)
        \/ Check(t)
        \/ GuardDone(t)
        \/ Action(t)
        \/ ActionDone(t)
        \/ Commit(t)
        \/ Unlock(t)
        \/ Crash(t)

SpecMessages == InitMessages /\ [][NextMessages]_vars

\* The thread has merged its message and has not yet got into SendEvent.
Merged(t) == thr[t].via = "message" /\ thr[t].pc = "lock"

\* The thread is in SendEvent at its guard, its action or its commit.
Evaluating(t) == thr[t].pc \in {"check", "guard", "action", "actionWrite", "commit"}

\* C40 as claimed: the merge of a message's context and the SendEvent of
\* its event are one atomic step; no SendEvent of another thread evaluates
\* its guard or runs its action between the two.
C40_MergeSendAtomic == \A t \in Threads : Merged(t) => \A u \in Threads \ {t} : ~Evaluating(u)

\* C40, amended: the merge of a message's context is complete when the
\* SendEvent of its event begins, and that SendEvent is one atomic step
\* with respect to the SendEvent calls of other threads; merge and
\* SendEvent are two steps.
C40_MergeThenAtomicSend ==
    \A t \in Threads : (thr[t].via = "message" /\ InSendEvent(t)) =>
        /\ "token" \in DOMAIN sm.context
        /\ <<t, "w">> \notin ctxBusy \/ thr[t].pc = "actionWrite"
        /\ \A u \in Threads \ {t} : ~InSendEvent(u)

\* Another thread runs its action after the message was merged and before
\* the message's event is sent.
C40_Witness ==
    \E t \in Threads, u \in Threads :
        /\ t # u
        /\ Merged(t)
        /\ thr[u].via = "direct" /\ thr[u].pc = "action"
        /\ "token" \in DOMAIN sm.context

====
